---- MODULE Spec2Model ----
(***************************************************************************)
(* Verification model of the movinin list components and of the Location   *)
(* controller.                                                             *)
(*                                                                         *)
(*  SpecList     - the paginated list components of the frontend:          *)
(*                 LocationSelectList, AgencySelectList, AgencyList and    *)
(*                 BookingList (its list part).                            *)
(*                 One component is mounted per behaviour (component is    *)
(*                 chosen in InitList); its state hooks are the variables  *)
(*                 below, its handlers and effects are the actions.        *)
(*  SpecDialogs  - a list component with the cancel dialog of BookingList  *)
(*                 or the delete dialog of AgencyList.                     *)
(*  SpecLocation - the Location controller of the API over the Location    *)
(*                 and LocationValue collections: create, getLocations.    *)
(*  SpecLocationStore    - create, update, deleteLocation, getLocation     *)
(*                 with a store that can fail at any of its operations.    *)
(*  SpecLocationProperty - create, deleteLocation, checkLocation and the   *)
(*                 Property collection.                                    *)
(*  SpecLocationValidate - create, deleteLocation, validate.               *)
(*  SpecLocationUpdate   - create and update with bodies of two names.     *)
(*  SpecImageEditor      - the additional images of ImageEditor.           *)
(*                                                                         *)
(* A React handler or effect runs to completion and the component is       *)
(* rendered again before the next event, so one action is one handler      *)
(* together with the effects its state changes trigger.  An async _fetch   *)
(* is two steps: the synchronous part up to the await (inside the handler  *)
(* that calls it) and Resolve, the continuation.  The continuation reads   *)
(* the rows of the render that issued the call (a closure), which the      *)
(* request record carries.                                                 *)
(***************************************************************************)
EXTENDS Integers, Sequences, FiniteSets, TLC

VARIABLES
    component,      \* which component is mounted
    mode,           \* Env.PAGINATION_MODE / Env.isMobile()
    mounted,        \* the mount effects have run
    init, loading, rows, fetch, page, keyword,   \* useState hooks
    rowCount, totalRecords, reload,              \* useState hooks (AgencyList)
    agencies, statuses, filter,                  \* useState hooks (BookingList)
    paginationModel, pageSize,                   \* useState hooks (BookingList)
    inflight,       \* _fetch calls awaiting their response
    issued,         \* number of requests sent so far
    op,             \* history: the handler that ran last
    done,           \* history: the response processed last, what _fetch made of it
                    \* and the number of Helper.error calls it made
    lastFetched,    \* history: "rows" / "empty", what the last successful fetch returned
    cleared,        \* history: onClear ran after the last successful fetch
    selectedId, openCancelDialog,                \* useState hooks (BookingList)
    cancelRequestSent, cancelRequestProcessing,  \* useState hooks (BookingList)
    openDeleteDialog, agencyId, agencyIndex,     \* useState hooks (AgencyList)
    bookings,       \* the Booking objects the rows of BookingList refer to
    pending,        \* cancel and delete requests awaiting their answer, and timers
    images, filenames,   \* useState hooks (ImageEditor)
    render,         \* ImageEditor: the number of the render on display
    captured,       \* ImageEditor: the images and filenames arrays of earlier renders
                    \* that callbacks still hold, by render
    imagePending,   \* ImageEditor: file readers, uploads and deletions under way
    imageIssued,    \* ImageEditor: number of uploads and deletions started
    Location,       \* the Location collection: _id -> document
    LocationValue,  \* the LocationValue collection: _id -> document
    nextId,         \* the ObjectIds to come, one sequence per collection
    Property,       \* the Property collection: _id -> document
    res,            \* the controller call answered last: its arguments and its answer
    deleted         \* history: the Locations deleteLocation answered 200 for, with their values

bookingHooks == <<agencies, statuses, filter, paginationModel, pageSize>>

listVars == <<component, mode, mounted, init, loading, rows, fetch, page, keyword,
              rowCount, totalRecords, reload, bookingHooks, inflight, issued, op, done,
              lastFetched, cleared>>

dialogVars == <<selectedId, openCancelDialog, cancelRequestSent, cancelRequestProcessing,
                openDeleteDialog, agencyId, agencyIndex, bookings, pending>>

locationVars == <<Location, LocationValue, nextId, Property, res, deleted>>

imageVars == <<images, filenames, render, captured, imagePending, imageIssued>>

vars == <<listVars, dialogVars, imageVars, locationVars>>

---------------------------------------------------------------------------
(* Bounds of the model *)

MaxFetches == 3     \* requests one behaviour sends
MaxTotal == 2       \* records the server holds for a query
PAGE_SIZE == 1      \* Env.PAGE_SIZE

Keywords == {"", "a"}

SelectLists == {"LocationSelectList", "AgencySelectList"}
Components == SelectLists \cup {"AgencyList", "BookingList"}

\* Env.BOOKINGS_PAGE_SIZE and Env.BOOKINGS_MOBILE_PAGE_SIZE, configured alike,
\* and the page sizes the data grid offers.
BOOKINGS_PAGE_SIZE == PAGE_SIZE
BOOKINGS_MOBILE_PAGE_SIZE == PAGE_SIZE
pageSizeOptions == {BOOKINGS_PAGE_SIZE, BOOKINGS_PAGE_SIZE + 1}

\* A prop or state that is undefined, a filter state that is null, and the
\* values they take otherwise.  A filter is known by its keyword.
Undefined == "undefined"
Null == "null"
Agencies == {"agency"}
Statuses == {"paid"}
Filters == {"a"}

Defined(x) == x # Undefined

INFINITE_SCROLL == "INFINITE_SCROLL"
CLASSIC == "CLASSIC"

---------------------------------------------------------------------------
(* Requests and responses *)

NoReq == [id |-> 0, page |-> 0, keyword |-> "", size |-> 0, rows |-> <<>>, fetch |-> FALSE,
          onFetch |-> FALSE]

Min(a, b) == IF a < b THEN a ELSE b

\* The number of the first page: BookingList counts pages from 0.
FirstPage(comp) == IF comp = "BookingList" THEN 0 ELSE 1

\* The records a query matches, in the order of the server's $sort: each is
\* known by the query's keyword and its rank.
Matching(_keyword, total) == [i \in 1..total |-> [keyword |-> _keyword, i |-> i]]

\* $facet: resultData is $skip (page - 1) * size and $limit size of the sorted
\* documents; pageInfo is $count, which yields no document for no input.
Facet(sorted, page_, size) ==
    [resultData |-> SubSeq(sorted, (page_ - 1) * size + 1, Min(Len(sorted), page_ * size)),
     pageInfo |-> IF Len(sorted) = 0 THEN <<>> ELSE <<[totalRecords |-> Len(sorted)]>>]

\* What the service call can come back with.  "throw": the promise rejects;
\* "missing": data is undefined; "emptyArray": data = []; "nullFirst": data[0]
\* is null; "envelope": data[0] = {resultData, pageInfo} for a query that
\* matches total records at the time the server runs it.
Responses ==
    [kind : {"throw", "missing", "emptyArray", "nullFirst"}, total : {0}]
        \cup [kind : {"envelope"}, total : 0..MaxTotal]

\* The envelope of the list endpoints, the $facet of the matching records for
\* the page the request names, counted from first.
Envelope(req, total, first) ==
    LET facet == Facet(Matching(req.keyword, total), req.page - first + 1, req.size)
    IN  [isNull |-> FALSE,
         pageInfoIsArray |-> TRUE,
         pageInfo |-> facet.pageInfo,
         resultData |-> facet.resultData]

\* Mutant: const _data = data && data[0], no object stands in for a response
\* that is empty or missing.
FetchDataNoFallback(comp, req, resp) ==
    CASE resp.kind = "envelope" -> Envelope(req, resp.total, FirstPage(comp))
      [] OTHER ->
            [isNull |-> TRUE, pageInfoIsArray |-> FALSE, pageInfo |-> <<>>, resultData |-> <<>>]

\* const _data = data && data.length > 0 ? data[0] : { pageInfo: { totalRecord: 0 }, resultData: [] }
FetchData(comp, req, resp) ==
    CASE resp.kind = "envelope" -> Envelope(req, resp.total, FirstPage(comp))
      [] resp.kind = "nullFirst" ->
            [isNull |-> TRUE, pageInfoIsArray |-> FALSE, pageInfo |-> <<>>, resultData |-> <<>>]
      [] OTHER ->
            [isNull |-> FALSE, pageInfoIsArray |-> FALSE, pageInfo |-> <<>>, resultData |-> <<>>]

\* Array.isArray(_data.pageInfo) && _data.pageInfo.length > 0 ? _data.pageInfo[0].totalRecords : 0
TotalRecordsOf(_data) ==
    IF _data.pageInfoIsArray /\ Len(_data.pageInfo) > 0
    THEN _data.pageInfo[1].totalRecords
    ELSE 0

\* Mutant: responses are sequenced, only that of the latest request is applied.
FetchRowsLatestOnly(comp, md, req, resultData) ==
    IF req.id # issued THEN rows
    ELSE IF comp \in SelectLists \/ md = INFINITE_SCROLL
    THEN (IF req.page = FirstPage(comp) THEN resultData ELSE req.rows \o resultData)
    ELSE resultData

\* _rows of _fetch: the closure's rows are those of the render that called _fetch.
\* const _rows = _page === 1 ? _data.resultData : [...rows, ..._data.resultData]
\* (BookingList on mobile: _page === 0); AgencyList in classic mode and
\* BookingList on desktop set _data.resultData.
FetchRows(comp, md, req, resultData) ==
    IF comp \in SelectLists \/ md = INFINITE_SCROLL
    THEN (IF req.page = FirstPage(comp) THEN resultData ELSE req.rows \o resultData)
    ELSE resultData

\* Mutant: if (fetch), the first page is not exempt.
FetchGuardFlagOnly(comp, _fetchFlag, _page) ==
    IF comp = "LocationSelectList" THEN _fetchFlag ELSE TRUE

\* if (fetch || _page === 1) of LocationSelectList._fetch; the other components
\* send the request unconditionally.
FetchGuard(comp, _fetchFlag, _page) ==
    IF comp = "LocationSelectList" THEN _fetchFlag \/ _page = 1 ELSE TRUE

\* Mutant: setFetch(_data.resultData.length >= 0)
FetchFlagAlways(resultData) == Len(resultData) >= 0

\* setFetch(_data.resultData.length > 0)
FetchFlag(resultData) == Len(resultData) > 0

\* setRowCount((_page - 1) * Env.PAGE_SIZE + _rows.length)
RowCountOf(_page, _rows) == (_page - 1) * PAGE_SIZE + Len(_rows)

\* The rows onFetch / onLoad is called with: BookingList on mobile passes
\* _rows, the others _data.resultData.
LoadedRows(comp, md, _rows, resultData) ==
    IF comp = "BookingList" /\ md = INFINITE_SCROLL THEN _rows ELSE resultData

NoDone == [req |-> NoReq, resp |-> [kind |-> "none", total |-> 0], outcome |-> "none",
           errors |-> 0, resultData |-> <<>>, totalRecords |-> 0,
           onLoad |-> [rows |-> <<>>, rowCount |-> 0]]

---------------------------------------------------------------------------
(* The list components *)

\* ImageEditor, not in use.
ImageIdle ==
    /\ images = <<>>
    /\ filenames = <<>>
    /\ render = 0
    /\ captured = <<>>
    /\ imagePending = {}
    /\ imageIssued = 0

\* The dialogs of BookingList and AgencyList, closed, with nothing selected
\* ('' is a row that no list holds).
DialogIdle ==
    /\ selectedId = [keyword |-> "", i |-> 0]
    /\ openCancelDialog = FALSE
    /\ cancelRequestSent = FALSE
    /\ cancelRequestProcessing = FALSE
    /\ openDeleteDialog = FALSE
    /\ agencyId = [keyword |-> "", i |-> 0]
    /\ agencyIndex = -1
    /\ bookings = <<>>
    /\ pending = {}

\* The API state while a list component is observed.
LocationIdle ==
    /\ Location = <<>>
    /\ LocationValue = <<>>
    /\ nextId = [location |-> 1, value |-> 1]
    /\ Property = <<>>
    /\ res = [fn |-> "none"]
    /\ deleted = {}

InitList ==
    /\ LocationIdle
    /\ DialogIdle
    /\ ImageIdle
    /\ component \in Components
    /\ mode \in (IF component \in SelectLists THEN {INFINITE_SCROLL} ELSE {INFINITE_SCROLL, CLASSIC})
    /\ mounted = (component \in SelectLists)
    /\ init = (component \notin SelectLists)
    /\ loading = FALSE
    /\ rows = <<>>
    /\ fetch = (component \in SelectLists)
    /\ page = FirstPage(component)
    /\ keyword \in (IF component = "AgencyList" THEN Keywords ELSE {""})
    /\ rowCount = 0
    /\ totalRecords = 0
    /\ reload = FALSE
    /\ agencies \in (IF component = "BookingList" THEN {Undefined} \cup Agencies ELSE {Undefined})
    /\ statuses \in (IF component = "BookingList" THEN {Undefined} \cup Statuses ELSE {Undefined})
    /\ filter \in (IF component = "BookingList" THEN {Undefined} \cup Filters ELSE {Undefined})
    /\ paginationModel = [pageSize |-> BOOKINGS_PAGE_SIZE, page |-> 0]
    /\ pageSize = (IF mode = INFINITE_SCROLL THEN BOOKINGS_MOBILE_PAGE_SIZE ELSE BOOKINGS_PAGE_SIZE)
    /\ inflight = {}
    /\ issued = 0
    /\ op = "init"
    /\ done = NoDone
    /\ lastFetched = "none"
    /\ cleared = FALSE

\* The synchronous part of _fetch(_page, _keyword, onFetch), up to the await.
\* It sets loading' and sends the request (or not, LocationSelectList only).
CallFetch(_page, _keyword, _onFetch) ==
    IF FetchGuard(component, fetch, _page)
    THEN /\ issued < MaxFetches
         /\ loading' = TRUE
         /\ issued' = issued + 1
         /\ inflight' = inflight \cup
                {[id |-> issued + 1, page |-> _page, keyword |-> _keyword, size |-> PAGE_SIZE,
                  rows |-> rows, fetch |-> fetch, onFetch |-> _onFetch]}
    ELSE /\ loading' = FALSE
         /\ UNCHANGED <<inflight, issued>>

\* rows.find((r) => r._id === id) finds a row.
InRows(id, _rows) == \E k \in 1..Len(_rows) : _rows[k] = id

\* A scroll event comes from a list that shows rows: the list box of an empty
\* option list does not scroll, and window.scrollY > 0 needs a page with content.
Scrollable == Len(rows) > 0

\* MultipleSelect onFocus
OnFocus ==
    /\ component \in SelectLists
    /\ ~init
    /\ rows' = <<>>
    /\ page' = 1
    /\ CallFetch(1, keyword, TRUE)
    /\ op' = "onFocus"
    /\ UNCHANGED <<locationVars, imageVars, dialogVars, bookingHooks, component, mode, mounted, init, fetch, keyword, rowCount, totalRecords,
                   reload, done, lastFetched, cleared>>

\* ListboxProps.onScroll, the list box scrolled to its end
OnScroll ==
    /\ component \in SelectLists
    /\ Scrollable
    /\ fetch /\ ~loading
    /\ page' = page + 1
    /\ CallFetch(page + 1, keyword, FALSE)
    /\ op' = "onScroll"
    /\ UNCHANGED <<locationVars, imageVars, dialogVars, bookingHooks, component, mode, mounted, init, rows, fetch, keyword, rowCount,
                   totalRecords, reload, done, lastFetched, cleared>>

\* MultipleSelect onInputChange with the input's value _value
OnInputChange(_value) ==
    /\ component \in SelectLists
    /\ _value # keyword
    /\ rows' = <<>>
    /\ page' = 1
    /\ keyword' = _value
    /\ CallFetch(1, _value, FALSE)
    /\ op' = "onInputChange"
    /\ UNCHANGED <<locationVars, imageVars, dialogVars, bookingHooks, component, mode, mounted, init, fetch, rowCount, totalRecords,
                   reload, done, lastFetched, cleared>>

\* MultipleSelect onClear
OnClear ==
    /\ component \in SelectLists
    /\ rows' = <<>>
    /\ page' = 1
    /\ keyword' = ""
    /\ fetch' = TRUE
    /\ CallFetch(1, "", FALSE)
    /\ op' = "onClear"
    /\ cleared' = TRUE
    /\ UNCHANGED <<locationVars, imageVars, dialogVars, bookingHooks, component, mode, mounted, init, rowCount, totalRecords, reload,
                   done, lastFetched>>

\* AgencyList: the effects of the first render.  The keyword and reload effects
\* find the props equal to the state; the [page] effect calls _fetch(page, keyword).
Mount ==
    /\ component = "AgencyList"
    /\ ~mounted
    /\ mounted' = TRUE
    /\ CallFetch(page, keyword, FALSE)
    /\ op' = "mount"
    /\ UNCHANGED <<locationVars, imageVars, dialogVars, bookingHooks, component, mode, init, rows, fetch, page, keyword, rowCount,
                   totalRecords, reload, done, lastFetched, cleared>>

\* AgencyList: the keyword prop changes to agencyListKeyword; the
\* [agencyListKeyword, keyword] effect runs.
KeywordEffect(agencyListKeyword) ==
    /\ component = "AgencyList"
    /\ mounted
    /\ agencyListKeyword # keyword
    /\ CallFetch(1, agencyListKeyword, FALSE)
    /\ keyword' = agencyListKeyword
    /\ op' = "keywordEffect"
    /\ UNCHANGED <<locationVars, imageVars, dialogVars, bookingHooks, component, mode, mounted, init, rows, fetch, page, rowCount,
                   totalRecords, reload, done, lastFetched, cleared>>

\* AgencyList: the reload prop changes to agencyListReload; the
\* [agencyListReload, reload] effect runs.
ReloadEffect(agencyListReload) ==
    /\ component = "AgencyList"
    /\ mounted
    /\ agencyListReload # reload
    /\ IF agencyListReload /\ ~reload
       THEN CallFetch(1, "", FALSE)
       ELSE UNCHANGED <<loading, inflight, issued>>
    /\ reload' = agencyListReload
    /\ op' = "reloadEffect"
    /\ UNCHANGED <<locationVars, imageVars, dialogVars, bookingHooks, component, mode, mounted, init, rows, fetch, page, keyword, rowCount,
                   totalRecords, done, lastFetched, cleared>>

\* AgencyList: body.onscroll near the end of the page (infinite scroll or mobile);
\* setPage(page + 1) makes the [page] effect call _fetch(page, keyword).
Scroll ==
    /\ component = "AgencyList"
    /\ mounted
    /\ mode = INFINITE_SCROLL
    /\ Scrollable
    /\ fetch /\ ~loading
    /\ page' = page + 1
    /\ CallFetch(page + 1, keyword, FALSE)
    /\ op' = "scroll"
    /\ UNCHANGED <<locationVars, imageVars, dialogVars, bookingHooks, component, mode, mounted, init, rows, fetch, keyword, rowCount,
                   totalRecords, reload, done, lastFetched, cleared>>

\* AgencyList in classic mode: setPage(_page) of the Pager's onNext / onPrevious,
\* then the [page] effect calls _fetch(page, keyword).
PagerTo(_page) ==
    /\ component = "AgencyList"
    /\ mounted
    /\ mode = CLASSIC
    /\ page' = _page
    /\ CallFetch(_page, keyword, FALSE)
    /\ UNCHANGED <<locationVars, imageVars, dialogVars, bookingHooks, component, mode, mounted, init, rows, fetch,
                   keyword, rowCount, totalRecords, reload, done, lastFetched, cleared>>

\* onNext={() => setPage(page + 1)}
OnNext == PagerTo(page + 1) /\ op' = "onNext"

\* onPrevious={() => setPage(page - 1)}, from a page that has a previous one
OnPrevious == page > 1 /\ PagerTo(page - 1) /\ op' = "onPrevious"

\* BookingList: the keyword of the payload's filter (filter: filter || undefined).
FilterKeyword(_filter) == IF _filter \in {Undefined, Null} THEN "" ELSE _filter

\* const _pageSize = Env.isMobile() ? Env.BOOKINGS_MOBILE_PAGE_SIZE : pageSize
FetchPageSize(md, _pageSize) ==
    IF md = INFINITE_SCROLL THEN BOOKINGS_MOBILE_PAGE_SIZE ELSE _pageSize

\* BookingList: the requests of n calls of _fetch(_page, user) made in a render
\* whose state holds _filter and _pageSize, numbered after from.
BookingRequests(from, n, _page, _filter, _pageSize) ==
    {[id |-> from + k, page |-> _page, keyword |-> FilterKeyword(_filter),
      size |-> FetchPageSize(mode, _pageSize), rows |-> rows, fetch |-> fetch,
      onFetch |-> TRUE] : k \in 1..n}

\* BookingList: the synchronous part of the calls of _fetch that send reqs, in a
\* render whose state holds _agencies and _statuses.  Every caller tests
\* agencies && statuses before it calls, so the else branch is never taken.
BookingFetch(_agencies, _statuses, reqs) ==
    IF Defined(_agencies) /\ Defined(_statuses)
    THEN /\ issued + Cardinality(reqs) <= MaxFetches
         /\ loading' = TRUE
         /\ issued' = issued + Cardinality(reqs)
         /\ inflight' = inflight \cup reqs
         /\ UNCHANGED <<rows, rowCount, init>>
    ELSE /\ rows' = <<>>
         /\ rowCount' = 0
         /\ loading' = FALSE
         /\ init' = FALSE
         /\ UNCHANGED <<inflight, issued>>

\* BookingList: the effects of the first render.  [paginationModel] sets page
\* and pageSize, [bookingFilter] sets filter to bookingFilter || null; [page],
\* [pageSize] and [agencies, statuses, filter] each call _fetch(0, user), and the
\* latter two run again for a pageSize or a filter the first effects changed.
BookingMount ==
    /\ component = "BookingList"
    /\ ~mounted
    /\ mounted' = TRUE
    /\ page' = paginationModel.page
    /\ pageSize' = paginationModel.pageSize
    /\ filter' = (IF Defined(filter) THEN filter ELSE Null)
    /\ LET first == BookingRequests(issued, 3, 0, filter, pageSize)
           again == BookingRequests(issued + 3,
                                    (IF pageSize' # pageSize THEN 1 ELSE 0)
                                        + (IF filter' # filter THEN 1 ELSE 0),
                                    0, filter', pageSize')
       IN  IF Defined(agencies) /\ Defined(statuses)
           THEN BookingFetch(agencies, statuses, first \cup again)
           ELSE UNCHANGED <<loading, inflight, issued, rows, rowCount, init>>
    /\ op' = "mount"
    /\ UNCHANGED <<locationVars, imageVars, dialogVars, component, mode, fetch, keyword, totalRecords, reload,
                   agencies, statuses, paginationModel, done, lastFetched, cleared>>

\* BookingList: the [agencies, statuses, filter] effect in a render whose state
\* holds _agencies, _statuses and _filter.  At page 0 it calls _fetch(0, user);
\* otherwise it sets paginationModel.page to 0, the [paginationModel] effect
\* sets page and pageSize, and the [page] effect calls _fetch(0, user).
QueryEffect(_agencies, _statuses, _filter) ==
    IF Defined(_agencies) /\ Defined(_statuses)
    THEN /\ paginationModel' =
                (IF page = 0 THEN paginationModel ELSE [paginationModel EXCEPT !.page = 0])
         /\ page' = 0
         /\ pageSize' = (IF page = 0 THEN pageSize ELSE paginationModel.pageSize)
         /\ BookingFetch(_agencies, _statuses,
                         BookingRequests(issued, 1, 0, _filter, pageSize'))
    ELSE UNCHANGED <<paginationModel, page, pageSize, loading, inflight, issued, rows,
                     rowCount, init>>

\* BookingList: the agencies prop changes to bookingAgencies.
AgenciesEffect(bookingAgencies) ==
    /\ component = "BookingList"
    /\ mounted
    /\ bookingAgencies # agencies
    /\ agencies' = bookingAgencies
    /\ QueryEffect(bookingAgencies, statuses, filter)
    /\ op' = "agenciesEffect"
    /\ UNCHANGED <<locationVars, imageVars, dialogVars, component, mode, mounted, fetch, keyword, totalRecords, reload,
                   statuses, filter, done, lastFetched, cleared>>

\* BookingList: the statuses prop changes to bookingStatuses.
StatusesEffect(bookingStatuses) ==
    /\ component = "BookingList"
    /\ mounted
    /\ bookingStatuses # statuses
    /\ statuses' = bookingStatuses
    /\ QueryEffect(agencies, bookingStatuses, filter)
    /\ op' = "statusesEffect"
    /\ UNCHANGED <<locationVars, imageVars, dialogVars, component, mode, mounted, fetch, keyword, totalRecords, reload,
                   agencies, filter, done, lastFetched, cleared>>

\* BookingList: the filter prop changes to bookingFilter; setFilter(bookingFilter || null).
FilterEffect(bookingFilter) ==
    LET _filter == IF Defined(bookingFilter) THEN bookingFilter ELSE Null
    IN  /\ component = "BookingList"
        /\ mounted
        /\ _filter # filter
        /\ filter' = _filter
        /\ QueryEffect(agencies, statuses, _filter)
        /\ op' = "filterEffect"
        /\ UNCHANGED <<locationVars, imageVars, dialogVars, component, mode, mounted, fetch, keyword, totalRecords,
                       reload, agencies, statuses, done, lastFetched, cleared>>

\* BookingList on mobile: element.onscroll near the end of the list;
\* setLoading(true), setPage(page + 1), and the [page] effect calls
\* _fetch(page, user) if agencies && statuses.
BookingScroll ==
    /\ component = "BookingList"
    /\ mounted
    /\ mode = INFINITE_SCROLL
    /\ Scrollable
    /\ fetch /\ ~loading
    /\ page' = page + 1
    /\ IF Defined(agencies) /\ Defined(statuses)
       THEN BookingFetch(agencies, statuses,
                         BookingRequests(issued, 1, page + 1, filter, pageSize))
       ELSE /\ loading' = TRUE
            /\ UNCHANGED <<inflight, issued, rows, rowCount, init>>
    /\ op' = "scroll"
    /\ UNCHANGED <<locationVars, imageVars, dialogVars, bookingHooks, component, mode, mounted, fetch, keyword,
                   totalRecords, reload, done, lastFetched, cleared>>

\* The pagination models the data grid can hand over from the page shown: a
\* neighbouring page, another page size, or both.
PaginationModels ==
    [pageSize : pageSizeOptions, page : {page - 1, page, page + 1} \cap (0..MaxTotal)]

\* BookingList on desktop: DataGrid onPaginationModelChange={setPaginationModel}.
\* The [paginationModel] effect sets page and pageSize; the [page] effect calls
\* _fetch(page, user) for a new page; the [pageSize] effect for a new page size
\* calls _fetch(0, user) at page 0 and otherwise sets paginationModel.page to 0,
\* after which the [page] effect calls _fetch(0, user).
OnPaginationModelChange(model) ==
    /\ component = "BookingList"
    /\ mounted
    /\ mode = CLASSIC
    /\ rows # <<>>
    /\ model # paginationModel
    /\ LET forPage == BookingRequests(issued, IF model.page # page THEN 1 ELSE 0,
                                      model.page, filter, model.pageSize)
           forSize == BookingRequests(issued + Cardinality(forPage),
                                      IF model.pageSize # pageSize THEN 1 ELSE 0,
                                      0, filter, model.pageSize)
       IN  IF Defined(agencies) /\ Defined(statuses)
           THEN /\ paginationModel' =
                      (IF model.pageSize # pageSize THEN [model EXCEPT !.page = 0] ELSE model)
                /\ page' = paginationModel'.page
                /\ pageSize' = model.pageSize
                /\ BookingFetch(agencies, statuses, forPage \cup forSize)
           ELSE /\ paginationModel' = model
                /\ page' = model.page
                /\ pageSize' = model.pageSize
                /\ UNCHANGED <<loading, inflight, issued, rows, rowCount, init>>
    /\ op' = "onPaginationModelChange"
    /\ UNCHANGED <<locationVars, imageVars, dialogVars, component, mode, mounted, fetch, keyword, totalRecords, reload,
                   agencies, statuses, filter, done, lastFetched, cleared>>

\* The continuation of _fetch after the await, for the request req and the
\* response resp, to the end of its finally block.
Resolve(req, resp) ==
    /\ req \in inflight
    /\ inflight' = inflight \ {req}
    /\ op' = "resolve"
    /\ loading' = FALSE
    /\ LET _data == FetchData(component, req, resp)
           _totalRecords == TotalRecordsOf(_data)
           _rows == FetchRows(component, mode, req, _data.resultData)
       IN  CASE resp.kind = "throw" ->
                  \* catch (err) { Helper.error(err) }
                  /\ done' = [req |-> req, resp |-> resp, outcome |-> "error", errors |-> 1,
                              resultData |-> <<>>, totalRecords |-> 0, onLoad |-> NoDone.onLoad]
                  /\ init' = (IF component \in SelectLists THEN init ELSE FALSE)
                  /\ UNCHANGED <<rows, fetch, rowCount, totalRecords, lastFetched, cleared>>
             [] resp.kind # "throw" /\ _data.isNull ->
                  \* if (!_data) { Helper.error(); return }
                  /\ done' = [req |-> req, resp |-> resp, outcome |-> "dropped",
                              errors |-> (IF component = "LocationSelectList" THEN 0 ELSE 1),
                              resultData |-> <<>>, totalRecords |-> 0, onLoad |-> NoDone.onLoad]
                  /\ init' = (IF component \in SelectLists THEN init ELSE FALSE)
                  /\ UNCHANGED <<rows, fetch, rowCount, totalRecords, lastFetched, cleared>>
             [] OTHER ->
                  /\ rows' = _rows
                  \* BookingList on desktop has no setFetch
                  /\ fetch' = (IF component = "BookingList" /\ mode = CLASSIC
                               THEN fetch
                               ELSE FetchFlag(_data.resultData))
                  /\ CASE component = "AgencyList" ->
                            /\ rowCount' = RowCountOf(req.page, _rows)
                            /\ totalRecords' = _totalRecords
                       [] component = "BookingList" ->
                            /\ rowCount' = _totalRecords
                            /\ UNCHANGED totalRecords
                       [] OTHER -> UNCHANGED <<rowCount, totalRecords>>
                  \* onFetch / onLoad({ rows, rowCount: totalRecords })
                  /\ done' = [req |-> req, resp |-> resp, outcome |-> "ok", errors |-> 0,
                              resultData |-> _data.resultData, totalRecords |-> _totalRecords,
                              onLoad |-> [rows |-> LoadedRows(component, mode, _rows,
                                                              _data.resultData),
                                          rowCount |-> _totalRecords]]
                  /\ init' = (IF component \in SelectLists THEN (init \/ req.onFetch) ELSE FALSE)
                  /\ lastFetched' = (IF Len(_data.resultData) > 0 THEN "rows" ELSE "empty")
                  /\ cleared' = FALSE
    /\ UNCHANGED <<locationVars, imageVars, dialogVars, bookingHooks, component, mode, mounted, page, keyword, reload, issued>>

NextList ==
    \/ OnFocus
    \/ OnScroll
    \/ \E _value \in Keywords : OnInputChange(_value)
    \/ OnClear
    \/ Mount
    \/ \E agencyListKeyword \in Keywords : KeywordEffect(agencyListKeyword)
    \/ \E agencyListReload \in BOOLEAN : ReloadEffect(agencyListReload)
    \/ Scroll
    \/ OnNext
    \/ OnPrevious
    \/ BookingMount
    \/ \E bookingAgencies \in Agencies : AgenciesEffect(bookingAgencies)
    \/ \E bookingStatuses \in Statuses : StatusesEffect(bookingStatuses)
    \/ \E bookingFilter \in {Undefined} \cup Filters : FilterEffect(bookingFilter)
    \/ BookingScroll
    \/ \E model \in PaginationModels : OnPaginationModelChange(model)
    \/ \E req \in inflight, resp \in Responses : Resolve(req, resp)

SpecList == InitList /\ [][NextList]_vars

---------------------------------------------------------------------------
(* The cancel dialog of BookingList and the delete dialog of AgencyList *)

\* Time in instants, DAY of them to a day.  Now is new Date(), an instant in
\* the course of the second day; Today is that date with hours, minutes,
\* seconds and milliseconds set to 0.
DAY == 3
Now == DAY + 1
Today == Now - (Now % DAY)

\* The from dates of bookings: the day before, today at midnight, the very
\* instant of Now, and later today.
Froms == {Today - 1, Today, Now, Now + 1}

\* movininTypes.Booking as far as the cancel button reads it.
BookingAttrs ==
    [cancellation : BOOLEAN, cancelRequest : BOOLEAN, status : {"Paid", "Cancelled"},
     from : Froms]

\* No _id: the empty string of selectedId and agencyId.  An _id is the row itself.
NoId == [keyword |-> "", i |-> 0]

\* The rows the booking endpoint can return.
AllRows ==
    {[keyword |-> FilterKeyword(f), i |-> i] : f \in Filters \cup {Null}, i \in 1..MaxTotal}

\* Mutant: the from date is not looked at.
CancelOfferedAnyDate(md, booking) ==
    /\ booking.cancellation
    /\ ~booking.cancelRequest
    /\ booking.status # "Cancelled"

\* The condition under which the cancel button of a booking is rendered.
\* Desktop (renderCell): new Date(params.row.from) >= today; mobile (card):
\* new Date(booking.from) > new Date().
CancelOffered(md, booking) ==
    /\ booking.cancellation
    /\ ~booking.cancelRequest
    /\ booking.status # "Cancelled"
    /\ IF md = INFINITE_SCROLL THEN booking.from > Now ELSE booking.from >= Today

\* The list state that no handler of the dialogs sets.
fetchState == <<component, mode, mounted, init, fetch, page, keyword, reload, bookingHooks,
                inflight, issued, lastFetched, cleared>>

cancelHooks == <<selectedId, openCancelDialog, cancelRequestSent, cancelRequestProcessing>>

deleteHooks == <<openDeleteDialog, agencyId, agencyIndex>>

\* A list component with its props as the page hands them over first: the
\* agencies of BookingList are still being loaded, its statuses and filter are
\* set.  Every booking the endpoint returns has the same attributes at first.
InitDialogs ==
    /\ LocationIdle
    /\ ImageIdle
    /\ component \in {"LocationSelectList", "AgencyList", "BookingList"}
    /\ mode \in (IF component \in SelectLists THEN {INFINITE_SCROLL} ELSE {INFINITE_SCROLL, CLASSIC})
    /\ mounted = (component \in SelectLists)
    /\ init = (component \notin SelectLists)
    /\ loading = FALSE
    /\ rows = <<>>
    /\ fetch = (component \in SelectLists)
    /\ page = FirstPage(component)
    /\ keyword = ""
    /\ rowCount = 0
    /\ totalRecords = 0
    /\ reload = FALSE
    /\ agencies = Undefined
    /\ statuses \in (IF component = "BookingList" THEN Statuses ELSE {Undefined})
    /\ filter \in (IF component = "BookingList" THEN Filters ELSE {Undefined})
    /\ paginationModel = [pageSize |-> BOOKINGS_PAGE_SIZE, page |-> 0]
    /\ pageSize = (IF mode = INFINITE_SCROLL THEN BOOKINGS_MOBILE_PAGE_SIZE ELSE BOOKINGS_PAGE_SIZE)
    /\ inflight = {}
    /\ issued = 0
    /\ op = "init"
    /\ done = NoDone
    /\ lastFetched = "none"
    /\ cleared = FALSE
    /\ selectedId = NoId
    /\ openCancelDialog = FALSE
    /\ cancelRequestSent = FALSE
    /\ cancelRequestProcessing = FALSE
    /\ openDeleteDialog = FALSE
    /\ agencyId = NoId
    /\ agencyIndex = -1
    /\ bookings \in (IF component = "BookingList"
                     THEN {[row \in AllRows |-> booking] : booking \in BookingAttrs}
                     ELSE {<<>>})
    /\ pending = {}

\* A cancel or delete request, or a timer, with what the closure that made it
\* holds: the id and index selected, rows, rowCount and totalRecords.
PendingRequest(kind, id, index) ==
    [kind |-> kind, id |-> id, index |-> index, rows |-> rows, rowCount |-> rowCount,
     totalRecords |-> totalRecords]

Timer == [kind |-> "timeout", id |-> NoId, index |-> -1, rows |-> <<>>, rowCount |-> 0,
          totalRecords |-> 0]

\* What a cancel or delete request can come back with: status 200, another
\* status, or a rejected promise.
Answers == {"200", "400", "throw"}

\* What _fetch, handleConfirmCancelBooking or handleConfirmDelete made of an
\* answer: the request, the answer, and the number of Helper.error calls.
Handled(req, answer, outcome, errors) ==
    [req |-> req, resp |-> [kind |-> answer, total |-> 0], outcome |-> outcome,
     errors |-> errors, resultData |-> <<>>, totalRecords |-> 0, onLoad |-> NoDone.onLoad]

\* Mutant: a request that fails is sent again.
AnswerTakenRetry(requests, req, answer) ==
    IF answer = "200" THEN requests \ {req} ELSE requests

\* The requests awaiting an answer once req has got its answer: the handlers
\* await the service call once and send nothing in their catch.
AnswerTaken(requests, req, answer) == requests \ {req}

\* BookingList: the cancel button of a row (cancelBooking of the action column
\* on desktop, onClick of the card's button on mobile).  The dialog is modal.
CancelBooking(row) ==
    /\ component = "BookingList"
    /\ mounted
    /\ InRows(row, rows)
    /\ ~openCancelDialog
    /\ CancelOffered(mode, bookings[row])
    /\ selectedId' = row
    /\ openCancelDialog' = TRUE
    /\ op' = "cancelBooking"
    /\ UNCHANGED <<locationVars, imageVars, fetchState, deleteHooks, loading, rows, rowCount, totalRecords,
                   done, cancelRequestSent, cancelRequestProcessing, bookings, pending>>

\* BookingList: the dialog's Close button, shown unless a request is processing.
HandleCloseCancelBooking ==
    /\ component = "BookingList"
    /\ openCancelDialog
    /\ ~cancelRequestProcessing
    /\ openCancelDialog' = FALSE
    /\ pending' = (IF cancelRequestSent THEN pending \cup {Timer} ELSE pending)
    /\ op' = "handleCloseCancelBooking"
    /\ UNCHANGED <<locationVars, imageVars, fetchState, deleteHooks, loading, rows, rowCount, totalRecords,
                   done, selectedId, cancelRequestSent, cancelRequestProcessing, bookings>>

\* BookingList: setTimeout(() => { setCancelRequestSent(false) }, 500)
CancelRequestSentTimeout ==
    /\ Timer \in pending
    /\ pending' = pending \ {Timer}
    /\ cancelRequestSent' = FALSE
    /\ op' = "timeout"
    /\ UNCHANGED <<locationVars, imageVars, fetchState, deleteHooks, loading, rows, rowCount, totalRecords,
                   done, selectedId, openCancelDialog, cancelRequestProcessing, bookings>>

\* BookingList: handleConfirmCancelBooking up to the await.  The Confirm button
\* is shown while no request has been sent or is processing.
HandleConfirmCancelBooking ==
    /\ component = "BookingList"
    /\ openCancelDialog
    /\ ~cancelRequestSent /\ ~cancelRequestProcessing
    /\ cancelRequestProcessing' = TRUE
    /\ pending' = pending \cup {PendingRequest("cancel", selectedId, -1)}
    /\ op' = "handleConfirmCancelBooking"
    /\ UNCHANGED <<locationVars, imageVars, fetchState, deleteHooks, loading, rows, rowCount, totalRecords,
                   done, selectedId, openCancelDialog, cancelRequestSent, bookings>>

\* BookingList: handleConfirmCancelBooking after the await.  rows and
\* selectedId are those of the render in which Confirm was clicked.
CancelResolve(req, answer) ==
    /\ req \in pending
    /\ req.kind = "cancel"
    /\ pending' = AnswerTaken(pending, req, answer)
    /\ op' = "cancelResolve"
    /\ IF answer = "200"
       THEN IF InRows(req.id, req.rows)
            THEN \* row.cancelRequest = true; setCancelRequestSent(true); setRows(rows);
                 \* setSelectedId(''); setCancelRequestProcessing(false)
                 /\ bookings' = [bookings EXCEPT ![req.id].cancelRequest = TRUE]
                 /\ cancelRequestSent' = TRUE
                 /\ rows' = req.rows
                 /\ selectedId' = NoId
                 /\ cancelRequestProcessing' = FALSE
                 /\ done' = Handled(req, answer, "ok", 0)
                 /\ UNCHANGED openCancelDialog
            ELSE \* const row = rows.find(...) is undefined: Helper.error()
                 /\ done' = Handled(req, answer, "error", 1)
                 /\ UNCHANGED <<bookings, cancelHooks, rows>>
       ELSE \* Helper.error(); setOpenCancelDialog(false); setCancelRequestProcessing(false)
            /\ done' = Handled(req, answer, "error", 1)
            /\ openCancelDialog' = FALSE
            /\ cancelRequestProcessing' = FALSE
            /\ UNCHANGED <<bookings, selectedId, cancelRequestSent, rows>>
    /\ UNCHANGED <<locationVars, imageVars, fetchState, deleteHooks, loading, rowCount, totalRecords>>

\* AgencyList: handleDelete of the row at index (data-index, counted from 0);
\* the user is an admin, who gets the delete button on every row.
HandleDelete(index) ==
    /\ component = "AgencyList"
    /\ mounted
    /\ index + 1 \in 1..Len(rows)
    /\ ~openDeleteDialog
    /\ openDeleteDialog' = TRUE
    /\ agencyId' = rows[index + 1]
    /\ agencyIndex' = index
    /\ op' = "handleDelete"
    /\ UNCHANGED <<locationVars, imageVars, fetchState, cancelHooks, loading, rows, rowCount, totalRecords,
                   done, bookings, pending>>

\* AgencyList: handleCancelDelete
HandleCancelDelete ==
    /\ component = "AgencyList"
    /\ openDeleteDialog
    /\ openDeleteDialog' = FALSE
    /\ agencyId' = NoId
    /\ agencyIndex' = -1
    /\ op' = "handleCancelDelete"
    /\ UNCHANGED <<locationVars, imageVars, fetchState, cancelHooks, loading, rows, rowCount, totalRecords,
                   done, bookings, pending>>

\* AgencyList: handleConfirmDelete up to the await.  The dialog is opened by
\* handleDelete only, so agencyId and agencyIndex are set and the else branch
\* is not taken.
HandleConfirmDelete ==
    /\ component = "AgencyList"
    /\ openDeleteDialog
    /\ agencyId # NoId /\ agencyIndex > -1
    /\ loading' = FALSE
    /\ openDeleteDialog' = FALSE
    /\ pending' = pending \cup {PendingRequest("delete", agencyId, agencyIndex)}
    /\ op' = "handleConfirmDelete"
    /\ UNCHANGED <<locationVars, imageVars, fetchState, cancelHooks, rows, rowCount, totalRecords, done,
                   agencyId, agencyIndex, bookings>>

\* rows.splice(agencyIndex, 1)
Splice(_rows, index) ==
    [k \in 1..(Len(_rows) - 1) |-> IF k <= index THEN _rows[k] ELSE _rows[k + 1]]

\* AgencyList: handleConfirmDelete after the await.  rows, rowCount,
\* totalRecords and agencyIndex are those of the render in which Delete was
\* clicked.
DeleteResolve(req, answer) ==
    /\ req \in pending
    /\ req.kind = "delete"
    /\ pending' = AnswerTaken(pending, req, answer)
    /\ op' = "deleteResolve"
    /\ CASE answer = "200" ->
              /\ rows' = Splice(req.rows, req.index)
              /\ rowCount' = req.rowCount - 1
              /\ totalRecords' = req.totalRecords - 1
              /\ agencyId' = NoId
              /\ agencyIndex' = -1
              /\ loading' = FALSE
              \* onDelete(_rowCount)
              /\ done' = [Handled(req, answer, "ok", 0) EXCEPT
                              !.onLoad = [rows |-> rows', rowCount |-> req.rowCount - 1]]
         [] answer = "400" ->
              /\ done' = Handled(req, answer, "error", 1)
              /\ agencyId' = NoId
              /\ agencyIndex' = -1
              /\ loading' = FALSE
              /\ UNCHANGED <<rows, rowCount, totalRecords>>
         [] OTHER ->
              \* catch (err) { Helper.error(err) }
              /\ done' = Handled(req, answer, "error", 1)
              /\ UNCHANGED <<rows, rowCount, totalRecords, agencyId, agencyIndex, loading>>
    /\ UNCHANGED <<locationVars, imageVars, fetchState, cancelHooks, openDeleteDialog, bookings>>

NextDialogs ==
    \/ OnFocus
    \/ OnScroll
    \/ Mount
    \/ KeywordEffect("a")
    \/ BookingMount
    \/ \E bookingAgencies \in Agencies : AgenciesEffect(bookingAgencies)
    \/ FilterEffect(Undefined)
    \/ \E req \in inflight, resp \in Responses : Resolve(req, resp)
    \/ \E row \in AllRows : CancelBooking(row)
    \/ HandleCloseCancelBooking
    \/ CancelRequestSentTimeout
    \/ HandleConfirmCancelBooking
    \/ \E req \in pending, answer \in Answers : CancelResolve(req, answer)
    \/ \E index \in 0..(MaxTotal - 1) : HandleDelete(index)
    \/ HandleCancelDelete
    \/ HandleConfirmDelete
    \/ \E req \in pending, answer \in Answers : DeleteResolve(req, answer)

\* A list component with its cancel or delete dialog.  The page clears the
\* filter of BookingList at most once and sets the keyword of AgencyList at
\* most once.
SpecDialogs == InitDialogs /\ [][NextDialogs]_vars

---------------------------------------------------------------------------
(* The Location controller *)

MaxLocations == 2   \* Location documents ever created
MaxValues == 2      \* LocationValue documents ever created
MaxPage == 2        \* req.params.page
MaxSize == 1        \* req.params.size

Languages == {"en", "fr"}

\* Strings are sequences of characters.
Paris == <<"P", "a", "r", "i", "s">>
Names == {Paris, <<"a", "x", "b">>}
SearchKeywords == {<<>>, <<"p", "a", "r">>, <<"a", ".", "b">>}

\* String.prototype.toLowerCase on one character, for the letters in use.
Lower(c) ==
    CASE c = "A" -> "a" [] c = "B" -> "b" [] c = "I" -> "i" [] c = "P" -> "p"
      [] c = "R" -> "r" [] c = "S" -> "s" [] c = "X" -> "x" [] OTHER -> c

\* escape-string-regexp: string.replace(/[|\\{}()[\]^$+*?.]/g, '\\$&').replace(/-/g, '\\x2d')
RegexSpecial == {"|", "\\", "{", "}", "(", ")", "[", "]", "^", "$", "+", "*", "?", "."}

\* Mutant: the keyword goes into the regex as it is.
escapeNothing(string) == string

RECURSIVE escapeStringRegexp(_)
escapeStringRegexp(string) ==
    IF string = <<>> THEN <<>>
    ELSE (IF Head(string) \in RegexSpecial THEN <<"\\", Head(string)>>
          ELSE IF Head(string) = "-" THEN <<"\\", "x", "2", "d">>
          ELSE <<Head(string)>>) \o escapeStringRegexp(Tail(string))

\* A regular expression as its atoms.  The patterns that occur are made of
\* literal characters, escaped characters, ".", and the anchors "^" and "$".
RECURSIVE RegexAtoms(_)
RegexAtoms(regex) ==
    IF regex = <<>> THEN <<>>
    ELSE IF Head(regex) = "\\" /\ Len(regex) >= 4 /\ SubSeq(regex, 2, 4) = <<"x", "2", "d">>
         THEN <<[atom |-> "char", c |-> "-"]>> \o RegexAtoms(SubSeq(regex, 5, Len(regex)))
    ELSE IF Head(regex) = "\\" /\ Len(regex) >= 2
         THEN <<[atom |-> "char", c |-> regex[2]]>> \o RegexAtoms(SubSeq(regex, 3, Len(regex)))
    ELSE IF Head(regex) = "."
         THEN <<[atom |-> "any", c |-> "."]>> \o RegexAtoms(Tail(regex))
    ELSE IF Head(regex) = "^"
         THEN <<[atom |-> "bol", c |-> "^"]>> \o RegexAtoms(Tail(regex))
    ELSE IF Head(regex) = "$"
         THEN <<[atom |-> "eol", c |-> "$"]>> \o RegexAtoms(Tail(regex))
    ELSE <<[atom |-> "char", c |-> Head(regex)]>> \o RegexAtoms(Tail(regex))

AtomMatches(a, c, options) ==
    \/ a.atom = "any"
    \/ a.atom = "char" /\ (IF options = "i" THEN Lower(a.c) = Lower(c) ELSE a.c = c)

\* Mutant: the pattern must match the whole input, as in validate.
RegexMatchWhole(input, regex, options) ==
    LET atoms == RegexAtoms(regex)
    IN  /\ Len(atoms) = Len(input)
        /\ \A k \in 1..Len(atoms) : AtomMatches(atoms[k], input[k], options)

\* $regexMatch: { input, regex, options }: the pattern occurs somewhere in input.
RegexMatch(input, regex, options) ==
    LET all == RegexAtoms(regex)
        bol == all # <<>> /\ all[1].atom = "bol"
        eol == all # <<>> /\ all[Len(all)].atom = "eol"
        atoms == SubSeq(all, IF bol THEN 2 ELSE 1, IF eol THEN Len(all) - 1 ELSE Len(all))
        n == Len(atoms)
    IN  \E at \in 1..(Len(input) - n + 1) :
            /\ bol => at = 1
            /\ eol => at + n - 1 = Len(input)
            /\ \A k \in 1..n : AtomMatches(atoms[k], input[at + k - 1], options)

InValues(id, values) == \E i \in 1..Len(values) : values[i] = id

\* The $lookup stage for one Location: the LocationValue documents of its
\* values, of the language, whose value matches the regex.
Lookup(location, language, regex, options) ==
    {v \in DOMAIN LocationValue :
        /\ InValues(v, Location[location].values)
        /\ LocationValue[v].language = language
        /\ RegexMatch(LocationValue[v].value, regex, options)}

\* Mutant: preserveNullAndEmptyArrays: true keeps a Location without a match.
UnwindPreserving(language, regex, options) ==
    UNION {IF Lookup(l, language, regex, options) = {}
           THEN {[_id |-> l, value |-> 0, name |-> <<>>]}
           ELSE {[_id |-> l, value |-> v, name |-> LocationValue[v].value] :
                    v \in Lookup(l, language, regex, options)} : l \in DOMAIN Location}

\* $unwind with preserveNullAndEmptyArrays: false, then $addFields name: one
\* document for each Location and each element of its looked-up value array.
Unwind(language, regex, options) ==
    UNION {{[_id |-> l, value |-> v, name |-> LocationValue[v].value] :
                v \in Lookup(l, language, regex, options)} : l \in DOMAIN Location}

\* The collation { locale, strength: 2 } compares names without regard to case.
CharOrder == <<".", "a", "b", "i", "p", "r", "s", "x">>
CharRank(c) == CHOOSE i \in 1..Len(CharOrder) : CharOrder[i] = Lower(c)

RECURSIVE CollationLessEq(_, _)
CollationLessEq(a, b) ==
    IF a = <<>> THEN TRUE
    ELSE IF b = <<>> THEN FALSE
    ELSE IF CharRank(Head(a)) # CharRank(Head(b)) THEN CharRank(Head(a)) < CharRank(Head(b))
    ELSE CollationLessEq(Tail(a), Tail(b))

RECURSIVE Orders(_)
Orders(docs) ==
    IF docs = {} THEN {<<>>}
    ELSE UNION {{<<d>> \o rest : rest \in Orders(docs \ {d})} : d \in docs}

\* $sort: { name: 1 }: the orders the stage can produce.  Documents whose names
\* are equal under the collation come in an order the store chooses.
SortByName(docs) ==
    {o \in Orders(docs) :
        \A i, j \in 1..Len(o) : i < j => CollationLessEq(o[i].name, o[j].name)}

\* The list components while the API is observed.
ListIdle ==
    /\ DialogIdle
    /\ component = "none"
    /\ mode = CLASSIC
    /\ mounted = FALSE
    /\ init = FALSE
    /\ loading = FALSE
    /\ rows = <<>>
    /\ fetch = FALSE
    /\ page = 1
    /\ keyword = ""
    /\ rowCount = 0
    /\ totalRecords = 0
    /\ reload = FALSE
    /\ agencies = Undefined
    /\ statuses = Undefined
    /\ filter = Undefined
    /\ paginationModel = [pageSize |-> BOOKINGS_PAGE_SIZE, page |-> 0]
    /\ pageSize = BOOKINGS_PAGE_SIZE
    /\ inflight = {}
    /\ issued = 0
    /\ op = "init"
    /\ done = NoDone
    /\ lastFetched = "none"
    /\ cleared = FALSE

\* The API over empty collections, before any request.
InitLocation ==
    /\ ListIdle
    /\ ImageIdle
    /\ Location = <<>>
    /\ LocationValue = <<>>
    /\ nextId = [location |-> 1, value |-> 1]
    /\ Property = <<>>
    /\ res = [fn |-> "none"]
    /\ deleted = {}

\* The payloads of create: lists of { language, name }.
LocationNames(maxLen) ==
    UNION {[1..n -> [language : Languages, name : Names]] : n \in 0..maxLen}

\* create: saves one LocationValue per name, then the Location.  saved is the
\* number of documents saved before the store fails; Len(names) + 1 is all.
create(names, saved) ==
    /\ nextId.location <= MaxLocations
    /\ nextId.value + Len(names) <= MaxValues + 1
    /\ saved <= Len(names) + 1
    /\ LET n == Min(saved, Len(names))
           values == [i \in 1..n |-> nextId.value + i - 1]
       IN  /\ LocationValue' =
                [id \in DOMAIN LocationValue \cup {values[i] : i \in 1..n} |->
                    IF id \in DOMAIN LocationValue THEN LocationValue[id]
                    ELSE [language |-> names[id - nextId.value + 1].language,
                          value |-> names[id - nextId.value + 1].name]]
           /\ IF saved = Len(names) + 1
              THEN /\ Location' = [id \in DOMAIN Location \cup {nextId.location} |->
                                     IF id \in DOMAIN Location THEN Location[id]
                                     ELSE [values |-> values]]
                   /\ nextId' = [location |-> nextId.location + 1, value |-> nextId.value + n]
                   /\ res' = [fn |-> "create", status |-> 200]
              ELSE /\ Location' = Location
                   /\ nextId' = [nextId EXCEPT !.value = nextId.value + n]
                   /\ res' = [fn |-> "create", status |-> 400]
    /\ UNCHANGED <<Property, deleted, listVars, dialogVars, imageVars>>

\* getLocations for /:page/:size/:language?s=, answering 200 with the
\* aggregation's result.
getLocations(page_, size, language, s) ==
    /\ LET keyword_ == escapeStringRegexp(s)
           options == "i"
       IN  \E sorted \in SortByName(Unwind(language, keyword_, options)) :
              res' = [fn |-> "getLocations", status |-> 200,
                      page |-> page_, size |-> size, language |-> language, s |-> s,
                      body |-> <<Facet(sorted, page_, size)>>]
    /\ UNCHANGED <<Location, LocationValue, nextId, Property, deleted, listVars, dialogVars, imageVars>>

\* getLocations when the aggregation throws: 400 and the message.
getLocationsError ==
    /\ res' = [fn |-> "getLocations", status |-> 400]
    /\ UNCHANGED <<Location, LocationValue, nextId, Property, deleted, listVars, dialogVars, imageVars>>

NextLocation ==
    \/ \E names \in LocationNames(MaxValues), saved \in 0..(MaxValues + 1) :
          create(names, saved)
    \/ \E page_ \in 1..MaxPage, size \in 1..MaxSize, language \in Languages, s \in SearchKeywords :
          getLocations(page_, size, language, s)
    \/ getLocationsError

SpecLocation == InitLocation /\ [][NextLocation]_vars

---------------------------------------------------------------------------
(* The Location controller: update, deleteLocation, getLocation, checkLocation *)

MaxStoreLocations == 1  \* Location documents created while these calls are observed
MaxProperties == 1      \* Property documents ever created

\* The ids the calls are made with: those of the Locations created and one
\* that no Location ever has.
StoreIds == 1..(MaxStoreLocations + 1)

\* The bodies of create and update here: at most one name.  A Location gets
\* its second name from an update.
StoreNames == LocationNames(1)

\* The store operations of an update with one name: findById, lv.save() and
\* location.save().
MaxStoreOps == 3

\* Mutant: no value of the language is ever found.
FilterByLanguageNone(values, locationValues, language) == <<>>

\* location.values.filter((value) => value.language === language), over the
\* populated values of a Location.
FilterByLanguage(values, locationValues, language) ==
    SelectSeq(values, LAMBDA v : locationValues[v].language = language)

\* One turn of update's loop for name.  st holds the Location's values in
\* memory, the values its stored document lists, the LocationValue
\* collection, the next value id, and ok, the store operations that still
\* succeed before the store fails.
UpdateName(st, name) ==
    LET locationValue == FilterByLanguage(st.values, st.LocationValue, name.language)
        lv == [language |-> name.language, value |-> name.name]
        withLv == [id \in DOMAIN st.LocationValue \cup {st.next} |->
                      IF id = st.next THEN lv ELSE st.LocationValue[id]]
    IN  IF st.ok = 0 THEN [st EXCEPT !.failed = TRUE]
        ELSE IF locationValue # <<>>
        THEN \* locationValue.value = name.name; await locationValue.save()
             [st EXCEPT !.LocationValue[locationValue[1]].value = name.name, !.ok = @ - 1]
        ELSE IF st.ok = 1
        THEN \* await lv.save() succeeds, await location.save() throws
             [st EXCEPT !.LocationValue = withLv, !.next = @ + 1,
                        !.values = Append(@, st.next), !.ok = 0, !.failed = TRUE]
        ELSE \* await lv.save(); location.values.push(lv); await location.save()
             [st EXCEPT !.LocationValue = withLv, !.next = @ + 1,
                        !.values = Append(@, st.next), !.stored = Append(st.values, st.next),
                        !.ok = @ - 2]

\* for (const name of names) { ... }, left as soon as the store fails
RECURSIVE UpdateNames(_, _)
UpdateNames(st, names) ==
    IF names = <<>> \/ st.failed THEN st
    ELSE UpdateNames(UpdateName(st, Head(names)), Tail(names))

\* update for /:id with the body names.  ok is the number of store operations
\* that succeed before the store fails, findById being the first.  res holds
\* the id, the body and its length, the status and the call that threw.
update(id, names, ok) ==
    /\ IF ok = 0
       THEN /\ res' = [fn |-> "update", id |-> id, length |-> Len(names), names |-> names,
                       status |-> 400, error |-> "findById"]
            /\ UNCHANGED <<Location, LocationValue, nextId>>
       ELSE IF id \notin DOMAIN Location
       THEN /\ res' = [fn |-> "update", id |-> id, length |-> Len(names), names |-> names,
                       status |-> 204, error |-> "none"]
            /\ UNCHANGED <<Location, LocationValue, nextId>>
       ELSE LET out == UpdateNames([values |-> Location[id].values,
                                    stored |-> Location[id].values,
                                    LocationValue |-> LocationValue,
                                    next |-> nextId.value,
                                    ok |-> ok - 1,
                                    failed |-> FALSE], names)
            IN  /\ out.next <= MaxValues + 1
                /\ LocationValue' = out.LocationValue
                /\ Location' = [Location EXCEPT ![id].values = out.stored]
                /\ nextId' = [nextId EXCEPT !.value = out.next]
                /\ res' = [fn |-> "update", id |-> id, length |-> Len(names), names |-> names,
                           status |-> IF out.failed THEN 400 ELSE 200,
                           error |-> IF out.failed THEN "save" ELSE "none"]
    /\ UNCHANGED <<Property, deleted, listVars, dialogVars, imageVars>>

\* Mutant: deleteMany removes nothing.
DeleteManyNone(collection, ids) == collection

\* LocationValue.deleteMany({ _id: { $in: ids } })
DeleteMany(collection, ids) == [id \in DOMAIN collection \ ids |-> collection[id]]

\* Mutant: no if (!location), a Location that is not found is answered 200.
DeleteStatusNoCheck(found, ok) ==
    IF ok = 0 THEN 400
    ELSE IF found /\ ok = 1 THEN 400
    ELSE 200

\* The status deleteLocation answers: 400 when findByIdAndDelete or deleteMany
\* throws, 204 when no Location has the id, 200 otherwise.
DeleteStatus(found, ok) ==
    IF ok = 0 THEN 400
    ELSE IF ~found THEN 204
    ELSE IF ok = 1 THEN 400
    ELSE 200

\* deleteLocation for /:id.  ok is the number of store operations that succeed
\* before the store fails: findByIdAndDelete, then deleteMany.
deleteLocation(id, ok) ==
    LET found == id \in DOMAIN Location
        status == DeleteStatus(found, ok)
    IN  /\ Location' = (IF found /\ ok >= 1
                        THEN [l \in DOMAIN Location \ {id} |-> Location[l]]
                        ELSE Location)
        /\ LocationValue' = (IF found /\ ok >= 2
                             THEN DeleteMany(LocationValue,
                                             {Location[id].values[i] :
                                                 i \in 1..Len(Location[id].values)})
                             ELSE LocationValue)
        /\ res' = [fn |-> "deleteLocation", id |-> id, status |-> status,
                   error |-> IF ok = 0 THEN "findByIdAndDelete"
                             ELSE IF found /\ ok = 1 THEN "deleteMany"
                             ELSE "none"]
        /\ deleted' = (IF found /\ status = 200
                       THEN deleted \cup {[id |-> id, values |-> Location[id].values]}
                       ELSE deleted)
        /\ UNCHANGED <<nextId, Property, listVars, dialogVars, imageVars>>

\* getLocation for /:id/:language.  ok = 0: findById throws.  A Location
\* without a value in the language makes filter(...)[0].value throw, which the
\* catch answers with 400 as well.
getLocation(id, language, ok) ==
    /\ res' =
         (IF ok = 0
          THEN [fn |-> "getLocation", id |-> id, language |-> language, status |-> 400,
                error |-> "findById"]
          ELSE IF id \notin DOMAIN Location
          THEN [fn |-> "getLocation", id |-> id, language |-> language, status |-> 204,
                error |-> "none"]
          ELSE LET values == FilterByLanguage(Location[id].values, LocationValue, language)
               IN  IF values = <<>>
                   THEN [fn |-> "getLocation", id |-> id, language |-> language,
                         status |-> 400, error |-> "filter"]
                   ELSE [fn |-> "getLocation", id |-> id, language |-> language,
                         status |-> 200, error |-> "none",
                         body |-> [_id |-> id, values |-> Location[id].values,
                                   name |-> LocationValue[values[1]].value]])
    /\ UNCHANGED <<Location, LocationValue, nextId, Property, deleted, listVars, dialogVars, imageVars>>

\* The names submitted to validate: the stored names, their fragments, and a
\* stored name in other letter case.
ValidateNames == Names \cup SearchKeywords \cup {<<"p", "A", "R", "I", "S">>}

\* Mutant: the pattern is the escaped name without ^ and $.
ValidatePatternUnanchored(name) == escapeStringRegexp(name)

\* new RegExp(`^${keyword}$`) with keyword = escapeStringRegexp(name)
ValidatePattern(name) == <<"^">> \o escapeStringRegexp(name) \o <<"$">>

\* LocationValue.findOne({ language: { $eq: language }, value: { $regex, $options } })
\* finds a document.
FindOneValue(language, regex, options) ==
    \E v \in DOMAIN LocationValue :
        /\ LocationValue[v].language = language
        /\ RegexMatch(LocationValue[v].value, regex, options)

\* validate for the body { language, name }.  ok = 0: findOne throws.
validate(language, name, ok) ==
    /\ res' = [fn |-> "validate", language |-> language, name |-> name,
               status |-> IF ok = 0 THEN 400
                          ELSE IF FindOneValue(language, ValidatePattern(name), "i") THEN 204
                          ELSE 200,
               error |-> IF ok = 0 THEN "findOne" ELSE "none"]
    /\ UNCHANGED <<Location, LocationValue, nextId, Property, deleted, listVars, dialogVars, imageVars>>

\* Mutant: only Properties of a Location that exists are counted.
PropertyCountExisting(id) ==
    IF id \in DOMAIN Location
    THEN Min(1, Cardinality({p \in DOMAIN Property : Property[p].location = id}))
    ELSE 0

\* Property.find({ location: _id }).limit(1).count()
PropertyCount(id) ==
    Min(1, Cardinality({p \in DOMAIN Property : Property[p].location = id}))

\* checkLocation for /:id.  ok = 0: the query throws.
checkLocation(id, ok) ==
    /\ res' = [fn |-> "checkLocation", id |-> id,
               status |-> IF ok = 0 THEN 400
                          ELSE IF PropertyCount(id) = 1 THEN 200
                          ELSE 204]
    /\ UNCHANGED <<Location, LocationValue, nextId, Property, deleted, listVars, dialogVars, imageVars>>

\* A Property is created with a reference to an existing Location (the
\* Property controller is outside the sources at hand).
propertyCreate(location) ==
    /\ location \in DOMAIN Location
    /\ Len(Property) < MaxProperties
    /\ Property' = Append(Property, [location |-> location])
    /\ res' = [fn |-> "propertyCreate", status |-> 200]
    /\ UNCHANGED <<Location, LocationValue, nextId, deleted, listVars, dialogVars, imageVars>>

\* create, for as many Locations as are observed here.
createObserved(names, saved) ==
    /\ nextId.location <= MaxStoreLocations
    /\ create(names, saved)

NextLocationStore ==
    \/ \E names \in StoreNames, saved \in 0..2 : createObserved(names, saved)
    \/ \E id \in StoreIds, names \in StoreNames, ok \in 0..MaxStoreOps :
          update(id, names, ok)
    \/ \E id \in StoreIds, ok \in 0..2 : deleteLocation(id, ok)
    \/ \E id \in StoreIds, language \in Languages, ok \in 0..1 :
          getLocation(id, language, ok)

\* create, update, deleteLocation and getLocation over the collections.
SpecLocationStore == InitLocation /\ [][NextLocationStore]_vars

NextLocationProperty ==
    \/ \E names \in StoreNames, saved \in 0..2 : createObserved(names, saved)
    \/ \E location \in StoreIds : propertyCreate(location)
    \/ \E id \in StoreIds, ok \in 0..2 : deleteLocation(id, ok)
    \/ \E id \in StoreIds, ok \in 0..1 : checkLocation(id, ok)

\* create, deleteLocation and checkLocation over the collections, with
\* Properties that refer to Locations.
SpecLocationProperty == InitLocation /\ [][NextLocationProperty]_vars

\* The bodies of update with up to two names, the same language twice
\* included: "Paris" in a language, then "axb" in a language.
UpdatePayloads ==
    {<<>>}
        \cup {<<[language |-> first, name |-> Paris]>> : first \in Languages}
        \cup {<<[language |-> first, name |-> Paris],
                [language |-> second, name |-> <<"a", "x", "b">>]>> :
                    first \in Languages, second \in Languages}

NextLocationUpdate ==
    \/ \E names \in StoreNames, saved \in 0..2 : createObserved(names, saved)
    \/ \E id \in StoreIds, names \in UpdatePayloads, ok \in 0..(2 * MaxStoreOps - 1) :
          update(id, names, ok)

\* create and update with bodies of several names.
SpecLocationUpdate == InitLocation /\ [][NextLocationUpdate]_vars

NextLocationValidate ==
    \/ \E names \in StoreNames, saved \in 0..2 : createObserved(names, saved)
    \/ \E id \in StoreIds, ok \in 0..2 : deleteLocation(id, ok)
    \/ \E language \in Languages, name \in ValidateNames, ok \in 0..1 :
          validate(language, name, ok)

\* create, deleteLocation and validate over the collections.
SpecLocationValidate == InitLocation /\ [][NextLocationValidate]_vars

---------------------------------------------------------------------------
(* ImageEditor: the additional images *)

MaxImageOps == 3    \* uploads and deletions started

\* The files the user picks, by file.name, and the images prop of the page.
Files == {"a.png", "b.png"}
ImagesProps == {<<>>, <<[temp |-> FALSE, filename |-> "p.png"]>>}

\* useState(ieImages || []) and useState([]), nothing under way.
InitImageEditor ==
    /\ ListIdle
    /\ Location = <<>>
    /\ LocationValue = <<>>
    /\ nextId = [location |-> 1, value |-> 1]
    /\ Property = <<>>
    /\ res = [fn |-> "none"]
    /\ deleted = {}
    /\ images \in ImagesProps
    /\ filenames = <<>>
    /\ render = 0
    /\ captured = <<>>
    /\ imagePending = {}
    /\ imageIssued = 0

\* The arrays that the callbacks made in the render r hold: those kept in
\* captured, or the state on display.
Held(r) ==
    IF r \in DOMAIN captured THEN captured[r]
    ELSE [images |-> images, filenames |-> filenames]

\* captured once the callbacks in ops are those under way: the arrays of the
\* renders they were made in, arrays being the content of render r.
Capture(ops, r, arrays) ==
    [q \in {op_.render : op_ \in ops} |->
        IF q = r THEN arrays ELSE Held(q)]

\* _images.splice(index, 1) and _filenames.splice(index, 1): the element at
\* index, counted from 0, is removed if there is one.
SpliceAt(array, index) ==
    IF index + 1 \in 1..Len(array) THEN Splice(array, index) ELSE array

\* filenames.includes(file.name)
Includes(array, name) == \E k \in 1..Len(array) : array[k] = name

ImageOp(kind, file, index) ==
    [kind |-> kind, file |-> file, index |-> index, render |-> render, id |-> imageIssued + 1]

\* handleImagesChange for one of the files picked: a FileReader is started.
\* The files of one pick, and of picks in the same render, are read side by
\* side, and their callbacks hold the arrays of that render.
HandleImagesChange(file) ==
    /\ imageIssued < MaxImageOps
    /\ imageIssued' = imageIssued + 1
    /\ imagePending' = imagePending \cup {ImageOp("read", file, -1)}
    /\ captured' = Capture(imagePending', render, Held(render))
    /\ UNCHANGED <<images, filenames, render, listVars, dialogVars, locationVars>>

\* reader.onloadend up to the await: if (!filenames.includes(file.name))
OnLoadEnd(op_) ==
    /\ op_ \in imagePending
    /\ op_.kind = "read"
    /\ imagePending' =
          (IF Includes(Held(op_.render).filenames, op_.file)
           THEN imagePending \ {op_}
           ELSE (imagePending \ {op_}) \cup {[op_ EXCEPT !.kind = "upload"]})
    /\ captured' = Capture(imagePending', render, Held(render))
    /\ UNCHANGED <<images, filenames, render, imageIssued, listVars, dialogVars, locationVars>>

\* reader.onloadend after await PropertyService.uploadImage(file): the name
\* and the image are pushed onto the arrays the callback holds, and clones of
\* them become the state.  The image item is named by the file it came from.
UploadResolve(op_, answer) ==
    /\ op_ \in imagePending
    /\ op_.kind = "upload"
    /\ imagePending' = imagePending \ {op_}
    /\ IF answer = "200"
       THEN LET held == Held(op_.render)
                pushed == [images |-> Append(held.images,
                                             [temp |-> TRUE, filename |-> op_.file]),
                           filenames |-> Append(held.filenames, op_.file)]
            IN  /\ images' = pushed.images
                /\ filenames' = pushed.filenames
                /\ render' = render + 1
                /\ captured' = [q \in {o.render : o \in imagePending'} |->
                                   IF q = op_.render THEN pushed ELSE Held(q)]
       ELSE \* catch (err) { Helper.error() }
            /\ captured' = Capture(imagePending', render, Held(render))
            /\ UNCHANGED <<images, filenames, render>>
    /\ UNCHANGED <<imageIssued, listVars, dialogVars, locationVars>>

\* The delete button of the image at index, up to the await.
DeleteImage(index) ==
    /\ index + 1 \in 1..Len(images)
    /\ imageIssued < MaxImageOps
    /\ imageIssued' = imageIssued + 1
    /\ imagePending' = imagePending \cup {ImageOp("delete", images[index + 1].filename, index)}
    /\ captured' = Capture(imagePending', render, Held(render))
    /\ UNCHANGED <<images, filenames, render, listVars, dialogVars, locationVars>>

\* The delete button after await PropertyService.deleteTempImage: on 200 the
\* element at index is spliced out of a clone of images and out of a clone of
\* filenames, the arrays of the render of the click.
DeleteImageResolve(op_, answer) ==
    /\ op_ \in imagePending
    /\ op_.kind = "delete"
    /\ imagePending' = imagePending \ {op_}
    /\ IF answer = "200"
       THEN /\ images' = SpliceAt(Held(op_.render).images, op_.index)
            /\ filenames' = SpliceAt(Held(op_.render).filenames, op_.index)
            /\ render' = render + 1
            /\ captured' = [q \in {o.render : o \in imagePending'} |-> Held(q)]
       ELSE \* Helper.error()
            /\ captured' = Capture(imagePending', render, Held(render))
            /\ UNCHANGED <<images, filenames, render>>
    /\ UNCHANGED <<imageIssued, listVars, dialogVars, locationVars>>

NextImageEditor ==
    \/ \E file \in Files : HandleImagesChange(file)
    \/ \E op_ \in imagePending : OnLoadEnd(op_)
    \/ \E op_ \in imagePending, answer \in {"200", "throw"} : UploadResolve(op_, answer)
    \/ \E index \in 0..MaxImageOps : DeleteImage(index)
    \/ \E op_ \in imagePending, answer \in Answers : DeleteImageResolve(op_, answer)

\* ImageEditor with its additional images.
SpecImageEditor == InitImageEditor /\ [][NextImageEditor]_vars

---------------------------------------------------------------------------
(* Properties of getLocations *)

\* s occurs in name as a run of characters, letter case apart.
ContainsIgnoringCase(name, s) ==
    \E at \in 1..(Len(name) - Len(s) + 1) :
        \A k \in 1..Len(s) : Lower(name[at + k - 1]) = Lower(s[k])

\* s is the whole of name, letter case apart.
EqualsIgnoringCase(name, s) ==
    Len(name) = Len(s) /\ \A k \in 1..Len(s) : Lower(name[k]) = Lower(s[k])

\* The name values of the Location in the language.
ValuesIn(location, language) ==
    {v \in DOMAIN LocationValue :
        InValues(v, Location[location].values) /\ LocationValue[v].language = language}

\* The Locations that have a name in the language containing s.
MatchingLocations(language, s) ==
    {l \in DOMAIN Location :
        \E v \in ValuesIn(l, language) : ContainsIgnoringCase(LocationValue[v].value, s)}

\* The pairs of a Location and one of its names in the language containing s.
MatchingNames(language, s) ==
    UNION {{<<l, v>> : v \in {w \in ValuesIn(l, language) :
                                ContainsIgnoringCase(LocationValue[w].value, s)}} :
           l \in DOMAIN Location}

\* getLocations answered 200; res holds its arguments and the envelope.
Answered == res.fn = "getLocations" /\ res.status = 200

ResultData == res.body[1].resultData

\* totalRecords of the envelope in res, 0 for an empty pageInfo.
TotalRecords ==
    IF res.body[1].pageInfo = <<>> THEN 0 ELSE res.body[1].pageInfo[1].totalRecords

\* C6: totalRecords is the number of Locations matching keyword and language,
\* whatever page and size are, and resultData has at most size elements.
C6_TotalIsMatchingLocations ==
    Answered =>
        /\ Len(res.body) = 1
        /\ TotalRecords = Cardinality(MatchingLocations(res.language, res.s))
        /\ Len(ResultData) <= res.size

\* C8 as claimed: a Location is returned only if the keyword is its whole name
\* in the language, letter case apart.
C8_WholeNameMatch ==
    Answered =>
        \A i \in 1..Len(ResultData) : EqualsIgnoringCase(ResultData[i].name, res.s)

\* C8 as amended: a Location is returned only with a name of the requested
\* language that contains the keyword, letter case apart, and every such name
\* is counted: the match is a substring match, a keyword that is a proper
\* substring of the name does match.
C8_SubstringMatch ==
    Answered =>
        /\ \A i \in 1..Len(ResultData) :
              /\ ResultData[i]._id \in DOMAIN Location
              /\ ResultData[i].value \in ValuesIn(ResultData[i]._id, res.language)
              /\ ResultData[i].name = LocationValue[ResultData[i].value].value
              /\ ContainsIgnoringCase(ResultData[i].name, res.s)
        /\ TotalRecords = Cardinality(MatchingNames(res.language, res.s))

\* C8 witness: a search returned a Location whose name is longer than the
\* keyword.
C8_Witness ==
    /\ Answered
    /\ res.s = <<"p", "a", "r">>
    /\ \E i \in 1..Len(ResultData) : ResultData[i].name = Paris

\* The Locations created with exactly the name Paris in en and in fr.
ParisLocations ==
    {l \in DOMAIN Location :
        /\ Len(Location[l].values) = 2
        /\ \E v \in ValuesIn(l, "en") : LocationValue[v].value = Paris
        /\ \E v \in ValuesIn(l, "fr") : LocationValue[v].value = Paris}

\* C9: the keyword is matched as a literal fragment, letter case apart.  A
\* search for "par" in en counts every Location created with the name "Paris"
\* in en and fr and returns it with name "Paris" when the page holds all
\* matches; a search for "a.b" returns no Location named "axb".
C9_LiteralFragment ==
    Answered =>
        /\ (res.s = <<"p", "a", "r">> /\ res.language = "en") =>
              \A l \in ParisLocations :
                  /\ TotalRecords >= 1
                  /\ (res.page = 1 /\ TotalRecords <= res.size) =>
                        \E i \in 1..Len(ResultData) :
                            ResultData[i]._id = l /\ ResultData[i].name = Paris
        /\ res.s = <<"a", ".", "b">> =>
              \A i \in 1..Len(ResultData) : ResultData[i].name # <<"a", "x", "b">>

\* C9 witness: the Location was created with "Paris" in en and fr, and the
\* search for "par" in en has returned it with name "Paris".
C9_Witness ==
    /\ Answered
    /\ res.s = <<"p", "a", "r">> /\ res.language = "en"
    /\ \E l \in ParisLocations :
          \E i \in 1..Len(ResultData) : ResultData[i]._id = l /\ ResultData[i].name = Paris

\* C10: a Location without a name value in the requested language is in no
\* resultData and in no count: every returned Location has such a value, and
\* totalRecords is at most (for the empty keyword exactly) the number of names
\* in that language.
C10_OtherLanguagesExcluded ==
    Answered =>
        /\ \A i \in 1..Len(ResultData) :
              /\ ResultData[i]._id \in DOMAIN Location
              /\ ValuesIn(ResultData[i]._id, res.language) # {}
        /\ TotalRecords <= Cardinality(MatchingNames(res.language, <<>>))
        /\ res.s = <<>> => TotalRecords = Cardinality(MatchingNames(res.language, <<>>))

\* C10 witness: one Location has a name in the language and is returned for
\* the empty keyword, another has none.
C10_Witness ==
    /\ Answered
    /\ res.s = <<>>
    /\ TotalRecords = 1 /\ Len(ResultData) = 1
    /\ \E l \in DOMAIN Location : ValuesIn(l, res.language) = {}

\* The step is a getLocations call for the page after the one res holds, of
\* the same size, language and keyword, the collections being as they were.
NextPageAnswered ==
    /\ Answered /\ Answered'
    /\ res'.page = res.page + 1
    /\ res'.size = res.size /\ res'.language = res.language /\ res'.s = res.s
    /\ Location' = Location /\ LocationValue' = LocationValue

\* C11: the pages of a fixed size, keyword and language, asked for in order
\* over an unchanged collection, partition the matching Locations in ascending
\* order of name: a page and the next one share no Location, the next one is
\* empty unless the page is full, names do not decrease from the page to the
\* next, and two pages that hold totalRecords entries hold every matching
\* Location.
C11_PagesPartitionMatches ==
    [][NextPageAnswered
          => /\ \A i \in 1..Len(ResultData), j \in 1..Len(ResultData') :
                    /\ ResultData[i]._id # ResultData'[j]._id
                    /\ CollationLessEq(ResultData[i].name, ResultData'[j].name)
             /\ ResultData' # <<>> => Len(ResultData) = res.size
             /\ (res.page = 1 /\ TotalRecords <= 2 * res.size) =>
                    {ResultData[i]._id : i \in 1..Len(ResultData)}
                        \cup {ResultData'[j]._id : j \in 1..Len(ResultData')}
                      = MatchingLocations(res.language, res.s)]_vars

---------------------------------------------------------------------------
(* Properties of update, deleteLocation, getLocation and checkLocation *)

\* The ids of a list of values.
IdsOf(values) == {values[i] : i \in 1..Len(values)}

\* C12: a deleteLocation call that removes a Location leaves none of that
\* Location's LocationValue documents in the store, whatever the call answers,
\* the answer 400 of a failed value deletion included.
C12_DeleteLeavesNoValues ==
    [][(res'.fn = "deleteLocation" /\ res'.id \in DOMAIN Location
            /\ res'.id \notin DOMAIN Location')
          => IdsOf(Location[res'.id].values) \cap DOMAIN LocationValue' = {}]_vars

\* The ids deleteLocation answered 200 for.
DeletedIds == {d.id : d \in deleted}

\* C13: once deleteLocation has answered 200 for an id, the Location document
\* and all its value documents are gone for good, other Locations being created
\* or not, and every getLocation for the id that the store answers is answered
\* 204 (400 only when findById itself throws).
C13_DeletedStaysGone ==
    /\ \A d \in deleted :
          /\ d.id \notin DOMAIN Location
          /\ IdsOf(d.values) \cap DOMAIN LocationValue = {}
    /\ (res.fn = "getLocation" /\ res.id \in DeletedIds)
          => \/ res.status = 204
             \/ res.status = 400 /\ res.error = "findById"

\* C13 witness: a Location with two values was deleted with the answer 200,
\* and getLocation for its id has answered 204.
C13_Witness ==
    /\ res.fn = "getLocation" /\ res.status = 204
    /\ \E d \in deleted : d.id = res.id /\ Len(d.values) = 2

\* C14: every LocationValue document is in the values of exactly one existing
\* Location.
C14_ExclusiveOwnership ==
    \A v \in DOMAIN LocationValue :
        Cardinality({l \in DOMAIN Location : InValues(v, Location[l].values)}) = 1

\* C15: deleteLocation does not remove a Location that a Property refers to
\* (for which checkLocation answers 200), and no Property refers to a Location
\* that is not in the store.
C15_ReferencedLocationKept ==
    [][(res'.fn = "deleteLocation" /\ PropertyCount(res'.id) = 1)
          => /\ Location' = Location
             /\ \A p \in DOMAIN Property' :
                    Property'[p].location \in DOMAIN Location']_vars

\* C20: update, deleteLocation and getLocation for an id that no Location has
\* leave both collections as they are and answer 204 (400 only when the lookup
\* itself throws); update saves no LocationValue.
C20_NotFoundChangesNothing ==
    [][(res'.fn \in {"update", "deleteLocation", "getLocation"}
            /\ res'.id \notin DOMAIN Location)
          => /\ Location' = Location
             /\ LocationValue' = LocationValue
             /\ nextId' = nextId
             /\ \/ res'.status = 204 /\ res'.error = "none"
                \/ res'.status = 400 /\ res'.error \in {"findById", "findByIdAndDelete"}]_vars

\* C20 witness: update with a name in its body was answered 204 for an id that
\* no Location has, while the store holds a Location and a value.
C20_Witness ==
    /\ res.fn = "update" /\ res.status = 204 /\ res.length = 1
    /\ res.id \notin DOMAIN Location
    /\ Location # <<>> /\ LocationValue # <<>>

\* The Location has at most one value per language.
OnePerLanguage(values, locationValues) ==
    \A i, j \in 1..Len(values) :
        locationValues[values[i]].language = locationValues[values[j]].language => i = j

\* The name submitted last for the language.
LastSubmitted(names, language) ==
    names[CHOOSE k \in 1..Len(names) :
              /\ names[k].language = language
              /\ \A later \in (k + 1)..Len(names) : names[later].language # language].name

\* C30: an update of an existing Location that answers 200 overwrites, for
\* each name submitted, the value of that language when the Location has one
\* and otherwise creates one value and appends it to the Location's values.
\* Values of languages not submitted, and of other Locations, are unchanged,
\* and a Location with at most one value per language has at most one per
\* language afterwards, also when the body names a new language twice.
C30_UpdateOverwritesOrAppends ==
    [][(/\ res'.fn = "update"
        /\ res'.status = 200
        /\ res'.id \in DOMAIN Location
        /\ OnePerLanguage(Location[res'.id].values, LocationValue))
          => LET names == res'.names
                 old == Location[res'.id].values
                 new == Location'[res'.id].values
                 submitted == {names[k].language : k \in 1..Len(names)}
                 had == {LocationValue[old[k]].language : k \in 1..Len(old)}
             IN  /\ Len(new) = Len(old) + Cardinality(submitted \ had)
                 /\ SubSeq(new, 1, Len(old)) = old
                 /\ OnePerLanguage(new, LocationValue')
                 /\ \A k \in 1..Len(new) :
                        LET language == LocationValue'[new[k]].language
                        IN  /\ k <= Len(old) => language = LocationValue[new[k]].language
                            /\ k > Len(old) => /\ new[k] \notin DOMAIN LocationValue
                                               /\ language \in submitted \ had
                            /\ LocationValue'[new[k]].value =
                                  (IF language \in submitted
                                   THEN LastSubmitted(names, language)
                                   ELSE LocationValue[new[k]].value)
                 /\ \A v \in DOMAIN LocationValue \ IdsOf(old) :
                        LocationValue'[v] = LocationValue[v]
                 /\ DOMAIN LocationValue' = DOMAIN LocationValue \cup IdsOf(new)
                 /\ \A l \in DOMAIN Location \ {res'.id} : Location'[l] = Location[l]
                 /\ DOMAIN Location' = DOMAIN Location]_vars

\* C30 witness: an update whose body names the same language twice with
\* different names has answered 200, and the Location has one value of that
\* language, with the name submitted last, next to a value of another language.
C30_Witness ==
    /\ res.fn = "update"
    /\ res.status = 200
    /\ res.id \in DOMAIN Location
    /\ Len(res.names) = 2
    /\ res.names[1].language = res.names[2].language
    /\ res.names[1].name # res.names[2].name
    /\ Len(Location[res.id].values) = 2
    /\ OnePerLanguage(Location[res.id].values, LocationValue)
    /\ \E k \in 1..2 :
           LocationValue[Location[res.id].values[k]] =
               [language |-> res.names[2].language, value |-> res.names[2].name]

\* C21: validate answers 204 exactly when some LocationValue of the language
\* has a value equal to the whole submitted name, letter case apart, and 200
\* otherwise (400 only when the query itself throws); it changes no stored
\* data.  A stored name that merely contains the submitted one, or the same
\* name under another language, gives 200.
C21_ValidateWholeName ==
    [][res'.fn = "validate"
          => /\ Location' = Location
             /\ LocationValue' = LocationValue
             /\ nextId' = nextId
             /\ Property' = Property
             /\ \/ res'.status = 400 /\ res'.error = "findOne"
                \/ /\ res'.error = "none"
                   /\ res'.status =
                        (IF \E v \in DOMAIN LocationValue :
                                /\ LocationValue[v].language = res'.language
                                /\ EqualsIgnoringCase(LocationValue[v].value, res'.name)
                         THEN 204 ELSE 200)]_vars

\* C21 witness: validate answered 200 for a name that a stored name of the
\* language contains without being equal to it.
C21_Witness ==
    /\ res.fn = "validate"
    /\ res.status = 200
    /\ res.name # <<>>
    /\ \E v \in DOMAIN LocationValue :
           /\ LocationValue[v].language = res.language
           /\ ContainsIgnoringCase(LocationValue[v].value, res.name)

\* C22: checkLocation answers 200 exactly when some Property refers to the
\* id and 204 when none does (400 only when the query throws), whether or not
\* a Location of that id exists, and changes no stored data.
C22_CheckCountsProperties ==
    [][res'.fn = "checkLocation"
          => /\ Location' = Location
             /\ LocationValue' = LocationValue
             /\ nextId' = nextId
             /\ Property' = Property
             /\ \/ res'.status = 400
                \/ res'.status =
                        (IF \E p \in DOMAIN Property : Property[p].location = res'.id
                         THEN 200 ELSE 204)]_vars

\* C22 witness: checkLocation answered 200 for an id whose Location has been
\* deleted.
C22_Witness ==
    /\ res.fn = "checkLocation"
    /\ res.status = 200
    /\ res.id \notin DOMAIN Location

---------------------------------------------------------------------------
(* Properties of the list components *)

\* The component appends pages (select lists; AgencyList in infinite-scroll or
\* mobile mode).
InfiniteScrolling == component \in SelectLists \/ mode = INFINITE_SCROLL

\* The keyword of the query the component shows: BookingList has it in its filter.
Query == IF component = "BookingList" THEN FilterKeyword(filter) ELSE keyword

\* The step is the continuation of a _fetch that got through to setRows.
FetchSucceeded == op' = "resolve" /\ done'.outcome = "ok"

\* C1: in the infinite-scroll list components a successful fetch of the first
\* page sets rows to exactly the response's resultData, and a successful fetch
\* of a later page, the keyword being unchanged, sets rows to the rows held
\* before it followed by the response's resultData.
C1_AppendsToHeldRows ==
    [][(InfiniteScrolling /\ FetchSucceeded)
          => IF done'.req.page = FirstPage(component)
             THEN rows' = done'.resultData
             ELSE (done'.req.keyword = Query => rows' = rows \o done'.resultData)]_vars

\* C2: in the select lists an input change to a value other than the keyword
\* clears rows, sets page to 1 and keyword to the value and sends a request for
\* page 1 of the new keyword, whatever the fetch flag is.
C2_InputChangeRefetches ==
    [][(component \in SelectLists /\ op' = "onInputChange")
          => /\ keyword' # keyword
             /\ rows' = <<>>
             /\ page' = 1
             /\ \E req \in inflight' \ inflight :
                    req.page = 1 /\ req.keyword = keyword' /\ req.fetch = fetch]_vars

\* C2 witness: the last page of the previous keyword was empty, the fetch flag
\* is false, and the input change has sent its request.
C2_Witness ==
    /\ component = "LocationSelectList"
    /\ op = "onInputChange"
    /\ ~fetch
    /\ lastFetched = "empty"
    /\ \E req \in inflight : req.id = issued /\ req.page = 1 /\ req.keyword = keyword /\ ~req.fetch

\* C3: in AgencyList a change of the keyword resets page to 1 and clears rows.
C3_KeywordChangeResetsPage ==
    [][(component = "AgencyList" /\ keyword' # keyword) => (page' = 1 /\ rows' = <<>>)]_vars

\* The component calls setFetch in _fetch: all but BookingList on desktop.
FlagKept == component # "BookingList" \/ mode = INFINITE_SCROLL

\* C4 as claimed: the fetch flag equals whether the last successful fetch
\* returned at least one row.
C4_FetchFlagIsLastResult ==
    (FlagKept /\ lastFetched # "none") => (fetch <=> lastFetched = "rows")

\* A scroll handler sent a request for the next page.
ScrollFetched ==
    /\ op' \in {"onScroll", "scroll"}
    /\ \E req \in inflight' \ inflight : req.page > FirstPage(component)

\* C4 as amended: the fetch flag is true after onClear until the next
\* successful fetch, and otherwise equals whether the last successful fetch
\* returned at least one row (before the first one it has its initial value);
\* a scroll sends a request only while the flag is true, so after an empty page
\* none is sent until some fetch returns rows or the selection is cleared.
C4_FetchFlagGatesScroll ==
    /\ [](FlagKept => (fetch <=> (\/ cleared
                                  \/ lastFetched = "rows"
                                  \/ (lastFetched = "none" /\ component \in SelectLists))))
    /\ [][ScrollFetched => (fetch /\ (cleared \/ lastFetched # "empty"))]_vars

\* C4 witness: a later page came back empty; rows are shown, nothing is
\* loading, and the flag is false.
C4_Witness ==
    /\ lastFetched = "empty"
    /\ ~cleared
    /\ done.outcome = "ok" /\ done.req.page > FirstPage(component)
    /\ Scrollable /\ ~loading /\ ~fetch

\* C5: responses are not sequenced.  A successful response of a request that is
\* not the latest one sent sets rows from its own request and leaves keyword
\* and page, which are those of the newer request, as they are.
C5_StaleResponseApplied ==
    [][(FetchSucceeded /\ done'.req.id < issued)
          => /\ rows' = IF InfiniteScrolling /\ done'.req.page # FirstPage(component)
                        THEN done'.req.rows \o done'.resultData
                        ELSE done'.resultData
             /\ keyword' = keyword
             /\ page' = page]_vars

\* C5 witness: two requests overlapped, the older one resolved last, and rows
\* hold its results while keyword is that of the newer request.
C5_Witness ==
    /\ inflight = {}
    /\ done.outcome = "ok"
    /\ done.req.id < issued
    /\ done.req.keyword # keyword
    /\ rows # <<>>
    /\ \A i \in 1..Len(rows) : rows[i].keyword = done.req.keyword

\* The response says that no record matches: the envelope has an empty
\* pageInfo, or the response array is empty or missing.
NoMatch(resp) ==
    \/ resp.kind \in {"missing", "emptyArray"}
    \/ resp.kind = "envelope" /\ resp.total = 0

\* C7 as claimed: when no record matches, or the response array is empty or
\* missing, every list component calls onFetch / onLoad with no rows and a
\* total of 0 and reports no error.
C7_ReportsEmptyRowList ==
    [][(op' = "resolve" /\ NoMatch(done'.resp))
          => /\ done'.outcome = "ok"
             /\ done'.errors = 0
             /\ done'.onLoad = [rows |-> <<>>, rowCount |-> 0]]_vars

\* C7 as amended: when no record matches the envelope's pageInfo is an empty
\* array, and for it, as for a response array that is empty or missing, every
\* list component takes the total to be 0 and the page to be empty and reports
\* no error.  The rows it holds become empty for a first page and where pages
\* replace each other; for a later page of an infinite-scroll list they stay
\* the rows held when the request was sent, and BookingList on mobile passes
\* those rows, not an empty list, to onLoad.
C7_NoMatchHandled ==
    [][(op' = "resolve" /\ NoMatch(done'.resp))
          => LET later == InfiniteScrolling /\ done'.req.page # FirstPage(component)
             IN  /\ done'.resp.kind = "envelope" =>
                        /\ FetchData(component, done'.req, done'.resp).pageInfoIsArray
                        /\ FetchData(component, done'.req, done'.resp).pageInfo = <<>>
                 /\ done'.outcome = "ok"
                 /\ done'.errors = 0
                 /\ done'.totalRecords = 0
                 /\ done'.resultData = <<>>
                 /\ done'.onLoad.rowCount = 0
                 /\ done'.onLoad.rows =
                        (IF later /\ component = "BookingList" THEN done'.req.rows ELSE <<>>)
                 /\ rows' = (IF later THEN done'.req.rows ELSE <<>>)
                 /\ component = "AgencyList" => totalRecords' = 0
                 /\ component = "BookingList" => rowCount' = 0]_vars

\* C7 witness: BookingList on mobile held rows, the next page came back with an
\* empty pageInfo, and onLoad got the rows held with a total of 0.
C7_Witness ==
    /\ component = "BookingList"
    /\ mode = INFINITE_SCROLL
    /\ op = "resolve"
    /\ done.outcome = "ok"
    /\ done.resp = [kind |-> "envelope", total |-> 0]
    /\ done.req.page > 0
    /\ done.onLoad.rows # <<>>
    /\ done.onLoad.rowCount = 0
    /\ rows = done.onLoad.rows

---------------------------------------------------------------------------
(* Properties of the cancel dialog and of the delete dialog *)

\* The conditions of cancellation that do not depend on the layout.
Cancellable(booking) ==
    /\ booking.cancellation
    /\ ~booking.cancelRequest
    /\ booking.status # "Cancelled"

\* C16: in the desktop grid and in the mobile cards, the cancel action is
\* offered for a booking on display exactly when cancellation is enabled,
\* cancelRequest is not set, the status is not Cancelled and the from date is
\* today or later, whatever the time of day.
C16_CancelOfferedFromToday ==
    (component = "BookingList" /\ mounted)
        => \A k \in 1..Len(rows) :
               CancelOffered(mode, bookings[rows[k]])
                   <=> (Cancellable(bookings[rows[k]]) /\ bookings[rows[k]].from >= Today)

\* C17: a booking whose from date is earlier than the current date is never
\* the booking of selectedId while the cancel dialog is open, in either
\* layout, whatever its cancellation, cancelRequest and status.
C17_PastBookingNeverSelected ==
    component = "BookingList"
        => \A row \in AllRows :
               bookings[row].from < Today => ~(selectedId = row /\ openCancelDialog)

\* C17 witness: a booking of yesterday that is otherwise cancellable is on
\* display, and the dialog is closed with nothing selected.
C17_Witness ==
    /\ component = "BookingList"
    /\ mounted
    /\ op = "resolve"
    /\ \E k \in 1..Len(rows) :
           Cancellable(bookings[rows[k]]) /\ bookings[rows[k]].from < Today
    /\ selectedId = NoId
    /\ ~openCancelDialog

\* C18: confirming the cancel dialog sends a cancel request for selectedId.
\* When it is answered 200 the cancelRequest of the selected row becomes true,
\* cancelRequestSent becomes true and no list fetch is sent; on any other
\* status or on an exception one generic error is reported, the dialog is
\* closed and no cancelRequest changes.
C18_ConfirmCancelOutcome ==
    [][/\ op' = "handleConfirmCancelBooking"
            => \E req \in pending' \ pending : req.kind = "cancel" /\ req.id = selectedId
       /\ (op' = "cancelResolve" /\ done'.resp.kind = "200")
            => /\ bookings'[done'.req.id].cancelRequest
               /\ cancelRequestSent'
               /\ done'.errors = 0
               /\ inflight' = inflight
       /\ (op' = "cancelResolve" /\ done'.resp.kind # "200")
            => /\ done'.errors = 1
               /\ ~openCancelDialog'
               /\ bookings' = bookings]_vars

C23_ProcessingEnds ==
    cancelRequestProcessing => \E req \in pending : req.kind = "cancel"

\* C29: whenever the cancel dialog is opened for a booking, cancelRequestSent
\* is false, so that the dialog shows the question and the Confirm button,
\* also when it is opened before the delayed reset of a previous cancellation
\* has run.
C29_DialogOpensWithConfirm ==
    [][op' = "cancelBooking" => (openCancelDialog' /\ ~cancelRequestSent')]_vars

\* C24: in LocationSelectList and AgencySelectList loading is true in every
\* state in which a fetch is in flight, so that onScroll, guarded by
\* fetch && !loading, sends no page request while another is awaited.
C24_LoadingWhileInFlight ==
    (component \in SelectLists /\ inflight # {}) => loading

\* _rows is the concatenation of the full pages 1..k of the keyword.
HeldPages(_rows, _keyword, k) ==
    /\ Len(_rows) = k * PAGE_SIZE
    /\ \A n \in 1..Len(_rows) : _rows[n] = [keyword |-> _keyword, i |-> n]

\* C25: in LocationSelectList and AgencySelectList, with one fetch at a time
\* and the keyword unchanged, rows is the concatenation of pages 1..k with no
\* page skipped, also after a failure: when rows holds pages 1..p-1 and the
\* fetch of page p has failed, the next scroll does not fetch page p + 1.
C25_NoPageSkippedAfterFailure ==
    [][(/\ component \in SelectLists
        /\ op = "resolve" /\ done.resp.kind = "throw"
        /\ inflight = {}
        /\ done.req.page > 1
        /\ done.req.keyword = keyword
        /\ HeldPages(rows, keyword, done.req.page - 1)
        /\ op' = "onScroll")
          => \A req \in inflight' : req.page # done.req.page + 1]_vars

\* C26: in AgencyList, after every successful fetch, in classic and in
\* infinite-scroll mode alike, rowCount is the number of records loaded up to
\* the end of the current page and does not exceed totalRecords.
C26_RowCountIsRecordsLoaded ==
    [][(component = "AgencyList" /\ op' = "resolve" /\ done'.outcome = "ok")
          => /\ rowCount' = (IF InfiniteScrolling
                             THEN Len(rows')
                             ELSE (done'.req.page - 1) * PAGE_SIZE + Len(rows'))
             /\ rowCount' <= totalRecords']_vars

\* C27: in AgencyList, when the delete request for agencyId is answered 200
\* the row removed from rows is the row of agencyId and no other, and rowCount
\* and totalRecords drop by one each, also when a fetch has replaced rows
\* between the click on the delete icon and the confirmation; on any other
\* answer rows, rowCount and totalRecords are unchanged.
C27_DeleteRemovesSelectedRow ==
    [][op' = "deleteResolve"
          => IF done'.resp.kind = "200"
             THEN /\ ~InRows(done'.req.id, rows')
                  /\ \A k \in 1..Len(rows) :
                        rows[k] # done'.req.id => InRows(rows[k], rows')
                  /\ rowCount' = rowCount - 1
                  /\ totalRecords' = totalRecords - 1
             ELSE /\ rows' = rows
                  /\ rowCount' = rowCount
                  /\ totalRecords' = totalRecords]_vars

---------------------------------------------------------------------------
(* Properties of ImageEditor *)

\* C28: images and filenames stay aligned under any sequence of uploads and
\* deletions of additional images, also when the images prop is not empty: a
\* file name is in filenames exactly when an image uploaded from that file is
\* in images.
C28_FilenamesAligned ==
    \A file \in Files :
        Includes(filenames, file)
            <=> \E k \in 1..Len(images) : images[k] = [temp |-> TRUE, filename |-> file]

====
